---- MODULE Spec2Model ----
(***************************************************************************)
(* gh-as-db: a record store on top of a remote versioned blob store.       *)
(* The model covers the storage engine (GitHubStorageProvider: retry       *)
(* wrapper, two-tier cache, CAS write, atomic commit), the transaction     *)
(* buffer and the collection layer, for two independent processes that     *)
(* share one remote repository.                                            *)
(*                                                                         *)
(* Handlers are modelled as operators over (engine state, remote state)    *)
(* that return the new states and the outcome; an action applies one       *)
(* handler of one process.  The wall clock only advances between handlers  *)
(* (action Tick).                                                          *)
(***************************************************************************)
EXTENDS Integers, Sequences, FiniteSets, TLC

\* ------------------------------------------------------------------ bounds
MaxOps == 3
MaxCollOps == 4
MaxTxOps == 4

\* ------------------------------------------------------- program constants
DEFAULT_TTL == 0
maxRetries == 3

Procs == {1, 2}
CollPath == "users.json"
ItemPath(id) == IF id = 1 THEN "users/1.json" ELSE "users/2.json"
Paths == {"users.json", "users/1.json", "users/2.json"}
Ids == {1, 2}
Names == {"a", "b"}
\* the configured cacheTTL: the default, or one tick
TTLs == {DEFAULT_TTL, DEFAULT_TTL + 1}
\* the clock runs until an entry set at time 0 has expired under every TTL
MaxTime == DEFAULT_TTL + 2

NoSha == 0
NoExpiry == -1

Rec(i, n) == [id |-> i, name |-> n]

\* ------------------------------------------------------------------ errors
NoErr == [kind |-> "none", status |-> 0, path |-> ""]
HttpErr(s) == [kind |-> "http", status |-> s, path |-> ""]
ConcurrencyError(path) == [kind |-> "concurrency", status |-> 0, path |-> path]
RateLimitError == [kind |-> "ratelimit", status |-> 0, path |-> ""]
PlainError(msg) == [kind |-> "error", status |-> 0, path |-> msg]

\* a handler's outcome: data/sha of a read or write, yes of exists, nul when
\* the data read is null
Ok(d, s) == [ok |-> TRUE, data |-> d, sha |-> s, err |-> NoErr, yes |-> FALSE,
             nul |-> FALSE]
OkBool(b) == [Ok(<<>>, NoSha) EXCEPT !.yes = b]
OkNull(s) == [Ok(<<>>, s) EXCEPT !.nul = TRUE]
Fail(e) == [ok |-> FALSE, data |-> <<>>, sha |-> NoSha, err |-> e, yes |-> FALSE,
            nul |-> FALSE]

\* ------------------------------------------------------------ remote store
NoFile == [present |-> FALSE, data |-> <<>>, sha |-> NoSha]
File(d, s) == [present |-> TRUE, data |-> d, sha |-> s]

\* get-content-by-path, with an optional if-none-match precondition
RemoteGetStatus(rem, path, ifNoneMatch) ==
  IF ~rem.files[path].present THEN 404
  ELSE IF ifNoneMatch # NoSha /\ ifNoneMatch = rem.files[path].sha THEN 304
  ELSE 200

\* create-or-update-content-by-path: accepted only with the current token
RemotePutStatus(rem, path, sha) ==
  IF rem.files[path].present
  THEN IF sha = rem.files[path].sha THEN 200 ELSE 409
  ELSE IF sha = NoSha THEN 200 ELSE 409

RemotePut(rem, path, content) ==
  [rem EXCEPT !.files[path] = File(content, rem.nextSha),
              !.nextSha = rem.nextSha + 1,
              !.head = rem.head + 1]

\* delete-by-path, version-checked
RemoteDeleteStatus(rem, path, sha) ==
  IF ~rem.files[path].present THEN 404
  ELSE IF sha = rem.files[path].sha THEN 200 ELSE 409

RemoteDelete(rem, path) ==
  [rem EXCEPT !.files[path] = NoFile, !.head = rem.head + 1]

\* ------------------------------------------------------ MemoryCacheProvider
NoEntry == [present |-> FALSE, data |-> <<>>, sha |-> NoSha, shared |-> FALSE]
Entry(d, s, sh) == [present |-> TRUE, data |-> d, sha |-> s, shared |-> sh]
NoFresh == [entry |-> NoEntry, expiry |-> NoExpiry]

\* mutant: get never looks at the expiry
CacheGetForever(c, key, t) ==
  IF ~c[key].entry.present THEN [cache |-> c, entry |-> NoEntry]
  ELSE [cache |-> c, entry |-> c[key].entry]

\* get: an entry whose expiry has passed is deleted and reported as a miss
CacheGet(c, key, t) ==
  IF ~c[key].entry.present THEN [cache |-> c, entry |-> NoEntry]
  ELSE IF c[key].expiry # NoExpiry /\ t > c[key].expiry
       THEN [cache |-> [c EXCEPT ![key] = NoFresh], entry |-> NoEntry]
       ELSE [cache |-> c, entry |-> c[key].entry]

\* set: "ttl ? Date.now() + ttl : null"
CacheExpiry(ttl, t) == IF ttl # 0 THEN t + ttl ELSE NoExpiry

CacheSet(c, key, e, ttl, t) ==
  [c EXCEPT ![key] = [entry |-> e, expiry |-> CacheExpiry(ttl, t)]]

CacheDelete(c, key) == [c EXCEPT ![key] = NoFresh]

\* --------------------------------------------------------- retryWithBackoff
\* faults: the statuses of the first attempts that fail before the remote
\* answers with `real`; 200 is success, 0 an error without a status.
AttemptStatus(faults, real, attempt) ==
  IF attempt + 1 <= Len(faults) THEN faults[attempt + 1] ELSE real

RECURSIVE RetryLoop(_, _, _)
RetryLoop(faults, real, attempt) ==
  LET status == AttemptStatus(faults, real, attempt)
  IN IF status = 200 THEN [err |-> NoErr, n |-> attempt + 1]
     ELSE IF status = 409 THEN [err |-> HttpErr(status), n |-> attempt + 1]
     ELSE IF status # 0 /\ status < 500 /\ status # 429
          THEN [err |-> HttpErr(status), n |-> attempt + 1]
     ELSE IF status = 0 THEN [err |-> PlainError("network"), n |-> attempt + 1]
     ELSE IF attempt = maxRetries
          THEN [err |-> IF status = 429 THEN RateLimitError ELSE HttpErr(status),
                n |-> attempt + 1]
     ELSE RetryLoop(faults, real, attempt + 1)

retryWithBackoff(faults, real) == RetryLoop(faults, real, 0)

\* -------------------------------------- retryWithBackoff, attempt by attempt
baseDelay == 1000
maxDelay == 10000

\* config.retry: false, or {maxRetries, baseDelay, maxDelay}
RetryOff ==
  [enabled |-> FALSE, maxRetries |-> maxRetries, baseDelay |-> baseDelay,
   maxDelay |-> maxDelay]
RetryCfg(m, b, d) ==
  [enabled |-> TRUE, maxRetries |-> m, baseDelay |-> b, maxDelay |-> d]
\* the default, retry disabled, a single retry, a low cap on the delay
RetryConfigs ==
  {RetryCfg(maxRetries, baseDelay, maxDelay), RetryOff,
   RetryCfg(1, baseDelay, maxDelay), RetryCfg(maxRetries, baseDelay, 3000)}

\* the retry-after header of an answer: a string of decimal digits, or absent
NoHeader == <<>>
RetryAfters == {<<0>>, <<2>>, <<6, 0>>}
Undefined == -1

\* parseInt(str, 10) of a string of digits
RECURSIVE ParseDigits(_, _)
ParseDigits(str, acc) ==
  IF str = <<>> THEN acc ELSE ParseDigits(Tail(str), 10 * acc + Head(str))
parseInt(str) == ParseDigits(str, 0)

\* what one call of fn() ends with: status 200 is a result, any other an error
\* carrying that status (0: an error without a status) and response headers
Answer(status, retryAfter) == [status |-> status, retryAfter |-> retryAfter]
NoAnswer == Answer(200, NoHeader)
Answers ==
  {Answer(s, NoHeader) : s \in {200, 0, 401, 403, 404, 409, 429, 500, 503}}
    \cup {Answer(429, h) : h \in RetryAfters}
    \cup {Answer(503, <<6, 0>>)}

\* the outcome of the wrapper
Running == [kind |-> "pending", err |-> NoAnswer, retryAfter |-> Undefined]
Returned == [kind |-> "returned", err |-> NoAnswer, retryAfter |-> Undefined]
Threw(error) == [kind |-> "threw", err |-> error, retryAfter |-> Undefined]
NewRateLimitError(retryAfter) ==
  [kind |-> "ratelimit", err |-> NoAnswer, retryAfter |-> retryAfter]

NoRetry ==
  [pc |-> "idle", cfg |-> RetryOff, attempt |-> 0, calls |-> 0, waits |-> <<>>,
   lastError |-> NoAnswer, res |-> Running]

\* mutant: a 409 is retried like a server error
NonRetryableBut409(status) ==
  status # 409 /\ ((status # 0 /\ status < 500 /\ status # 429) \/ status = 0)

\* the errors the catch rethrows at once
NonRetryable(status) ==
  \/ status = 409
  \/ status # 0 /\ status < 500 /\ status # 429
  \/ status = 0

\* mutant: the loop gives up one attempt early
LastAttemptEarly(r) == r.attempt + 1 >= r.cfg.maxRetries

\* "if (attempt === maxRetries) break"
LastAttempt(r) == r.attempt = r.cfg.maxRetries

Min(a, b) == IF a < b THEN a ELSE b

\* the delay before the next attempt
Delay(cfg, attempt, error) ==
  IF error.status = 429 /\ error.retryAfter # NoHeader
  THEN parseInt(error.retryAfter) * 1000
  ELSE Min(cfg.baseDelay * 2 ^ attempt, cfg.maxDelay)

\* mutant: an exhausted run always rethrows the last error
ExhaustedRaw(lastError) == Threw(lastError)

\* after the loop: RateLimitError on a 429, else the last error
Exhausted(lastError) ==
  IF lastError.status = 429
  THEN NewRateLimitError(IF lastError.retryAfter # NoHeader
                         THEN parseInt(lastError.retryAfter) ELSE Undefined)
  ELSE Threw(lastError)

\* one call of fn() answered by `ans`, and what the wrapper does with it
Attempt(r, ans) ==
  IF ~r.cfg.enabled
  THEN [r EXCEPT !.calls = @ + 1, !.pc = "done",
                 !.res = IF ans.status = 200 THEN Returned ELSE Threw(ans)]
  ELSE IF ans.status = 200
  THEN [r EXCEPT !.calls = @ + 1, !.pc = "done", !.res = Returned]
  ELSE IF NonRetryable(ans.status)
  THEN [r EXCEPT !.calls = @ + 1, !.pc = "done", !.lastError = ans, !.res = Threw(ans)]
  ELSE IF LastAttempt(r)
  THEN [r EXCEPT !.calls = @ + 1, !.pc = "done", !.lastError = ans,
                 !.res = Exhausted(ans)]
  ELSE [r EXCEPT !.calls = @ + 1, !.pc = "wait", !.lastError = ans,
                 !.waits = Append(@, Delay(r.cfg, r.attempt, ans))]

\* the failures injected into one remote call of a handler
FaultSeqs == {<<>>, <<503>>, <<500, 500, 500, 500>>}
\* the fault sequences after which the remote still answers within the budget
Transient == {<<>>, <<503>>}
\* applies `faults` to the k-th remote call of a handler only
FaultsFor(k, faultAt, faults) == IF k = faultAt THEN faults ELSE <<>>
\* a handler run has at most one faulty remote call: [at, faults]
NoFault == [at |-> 0, faults |-> <<>>]
FaultPlans(ncalls) ==
  {NoFault} \cup [at : 1..ncalls, faults : FaultSeqs \ {<<>>}]

\* ----------------------------------------------------- GitHubStorageProvider
\* eng = [cache |-> fresh tier, stale |-> staleCache] of one process

\* mutant: exists() asks the remote whatever the cache holds
existsAsk(eng, rem, path, t, faults) ==
  LET r == retryWithBackoff(faults, RemoteGetStatus(rem, path, NoSha))
  IN IF r.err.kind = "none" THEN [eng |-> eng, res |-> OkBool(TRUE), calls |-> r.n]
     ELSE IF r.err.status = 404
     THEN [eng |-> eng, res |-> OkBool(FALSE), calls |-> r.n]
     ELSE [eng |-> eng, res |-> Fail(r.err), calls |-> r.n]

exists(eng, rem, path, t, faults) ==
  LET g == CacheGet(eng.cache, path, t)
      e1 == [eng EXCEPT !.cache = g.cache]
  IN IF g.entry.present \/ eng.stale[path].present
     THEN [eng |-> e1, res |-> OkBool(TRUE), calls |-> 0]
     ELSE LET r == retryWithBackoff(faults, RemoteGetStatus(rem, path, NoSha))
          IN IF r.err.kind = "none"
             THEN [eng |-> e1, res |-> OkBool(TRUE), calls |-> r.n]
             ELSE IF r.err.status = 404
             THEN [eng |-> e1, res |-> OkBool(FALSE), calls |-> r.n]
             ELSE [eng |-> e1, res |-> Fail(r.err), calls |-> r.n]

\* mutant: a "not modified" answer returns the stale entry and leaves the
\* fresh tier without one
readJsonNoRearm(eng, rem, path, ttl, t, faults) ==
  LET g == CacheGet(eng.cache, path, t)
      e1 == [eng EXCEPT !.cache = g.cache]
      st == eng.stale[path]
  IN IF g.entry.present
     THEN [eng |-> e1, res |-> Ok(g.entry.data, g.entry.sha), calls |-> 0,
           cond |-> FALSE, fetched |-> FALSE]
     ELSE LET r == retryWithBackoff(faults,
                     RemoteGetStatus(rem, path, IF st.present THEN st.sha ELSE NoSha))
          IN IF r.err.kind = "none"
             THEN LET result == Entry(rem.files[path].data, rem.files[path].sha, FALSE)
                  IN [eng |-> [cache |-> CacheSet(e1.cache, path, result, ttl, t),
                               stale |-> [e1.stale EXCEPT ![path] = result]],
                      res |-> Ok(result.data, result.sha), calls |-> r.n,
                      cond |-> st.present, fetched |-> TRUE]
             ELSE IF r.err.status = 304 /\ st.present
             THEN [eng |-> e1,
                   res |-> Ok(st.data, st.sha), calls |-> r.n, cond |-> TRUE,
                   fetched |-> FALSE]
             ELSE [eng |-> e1, res |-> Fail(r.err), calls |-> r.n,
                   cond |-> st.present, fetched |-> FALSE]

readJson(eng, rem, path, ttl, t, faults) ==
  LET g == CacheGet(eng.cache, path, t)
      e1 == [eng EXCEPT !.cache = g.cache]
      st == eng.stale[path]
  IN IF g.entry.present
     THEN [eng |-> e1, res |-> Ok(g.entry.data, g.entry.sha), calls |-> 0,
           cond |-> FALSE, fetched |-> FALSE]
     ELSE LET r == retryWithBackoff(faults,
                     RemoteGetStatus(rem, path, IF st.present THEN st.sha ELSE NoSha))
          IN IF r.err.kind = "none"
             THEN LET result == Entry(rem.files[path].data, rem.files[path].sha, FALSE)
                  IN [eng |-> [cache |-> CacheSet(e1.cache, path, result, ttl, t),
                               stale |-> [e1.stale EXCEPT ![path] = result]],
                      res |-> Ok(result.data, result.sha), calls |-> r.n,
                      cond |-> st.present, fetched |-> TRUE]
             ELSE IF r.err.status = 304 /\ st.present
             THEN [eng |-> [e1 EXCEPT !.cache = CacheSet(e1.cache, path, st, ttl, t)],
                   res |-> Ok(st.data, st.sha), calls |-> r.n, cond |-> TRUE,
                   fetched |-> FALSE]
             ELSE [eng |-> e1, res |-> Fail(r.err), calls |-> r.n,
                   cond |-> st.present, fetched |-> FALSE]

\* the version found for a write that carries none: a cached one, else one
\* looked up at the remote (remote call 1); a 404 of the lookup means none
LookupVersion(eng, rem, path, t, faults) ==
  LET g == CacheGet(eng.cache, path, t)
      cached == IF g.entry.present THEN g.entry ELSE eng.stale[path]
  IN IF cached.present
     THEN [cache |-> g.cache, sha |-> cached.sha, err |-> NoErr, calls |-> 0]
     ELSE LET r == retryWithBackoff(faults, RemoteGetStatus(rem, path, NoSha))
          IN IF r.err.kind = "none"
             THEN [cache |-> g.cache, sha |-> rem.files[path].sha,
                   err |-> NoErr, calls |-> r.n]
             ELSE IF r.err.status # 404
             THEN [cache |-> g.cache, sha |-> NoSha, err |-> r.err, calls |-> r.n]
             ELSE [cache |-> g.cache, sha |-> NoSha, err |-> NoErr, calls |-> r.n]

\* mutant: the caller's version is ignored and one is always looked up
WriteLookupAlways(eng, rem, path, sha, t, faults) ==
  LookupVersion(eng, rem, path, t, faults)

\* the version sent with the write: the caller's when it gives one
WriteLookup(eng, rem, path, sha, t, faults) ==
  IF sha # NoSha
  THEN [cache |-> eng.cache, sha |-> sha, err |-> NoErr, calls |-> 0]
  ELSE LookupVersion(eng, rem, path, t, faults)

\* mutant: the write invalidates the fresh tier instead of updating the tiers
WriteCacheInvalidate(eng, path, result, ttl, t) ==
  [cache |-> CacheDelete(eng.cache, path), stale |-> eng.stale]

\* the cache update after a confirmed write (write-through of both tiers)
WriteCache(eng, path, result, ttl, t) ==
  [cache |-> CacheSet(eng.cache, path, result, ttl, t),
   stale |-> [eng.stale EXCEPT ![path] = result]]

\* mutant: the remote's rejection is surfaced as it came
WriteFailureRaw(path, err) == err

\* the error a failed write surfaces: a 409 becomes ConcurrencyError(path)
WriteFailure(path, err) ==
  IF err.status = 409 THEN ConcurrencyError(path) ELSE err

\* faultAt = 1: the version lookup fails, 2: the write itself fails
writeJson(eng, rem, path, content, sha, ttl, t, faultAt, faults) ==
  LET lk == WriteLookup(eng, rem, path, sha, t, FaultsFor(1, faultAt, faults))
      e1 == [eng EXCEPT !.cache = lk.cache]
  IN IF lk.err.kind # "none"
     THEN [eng |-> e1, rem |-> rem, res |-> Fail(lk.err), calls |-> lk.calls,
           sent |-> NoSha, wrote |-> FALSE]
     ELSE LET r == retryWithBackoff(FaultsFor(2, faultAt, faults),
                                    RemotePutStatus(rem, path, lk.sha))
          IN IF r.err.kind = "none"
             THEN LET newSha == rem.nextSha
                  IN [eng |-> WriteCache(e1, path, Entry(content, newSha, FALSE), ttl, t),
                      rem |-> RemotePut(rem, path, content),
                      res |-> Ok(content, newSha), calls |-> lk.calls + r.n,
                      sent |-> lk.sha, wrote |-> TRUE]
             ELSE [eng |-> e1, rem |-> rem, res |-> Fail(WriteFailure(path, r.err)),
                   calls |-> lk.calls + r.n, sent |-> lk.sha, wrote |-> FALSE]

\* mutant: deleteFile forgets the stale entry and keeps the fresh one
deleteFileStaleOnly(eng, rem, path, sha, faults) ==
  LET r == retryWithBackoff(faults, RemoteDeleteStatus(rem, path, sha))
  IN IF r.err.kind = "none"
     THEN [eng |-> [eng EXCEPT !.stale[path] = NoEntry],
           rem |-> RemoteDelete(rem, path), res |-> Ok(<<>>, NoSha), calls |-> r.n]
     ELSE [eng |-> eng, rem |-> rem, res |-> Fail(r.err), calls |-> r.n]

deleteFile(eng, rem, path, sha, faults) ==
  LET r == retryWithBackoff(faults, RemoteDeleteStatus(rem, path, sha))
  IN IF r.err.kind = "none"
     THEN [eng |-> [cache |-> CacheDelete(eng.cache, path),
                    stale |-> [eng.stale EXCEPT ![path] = NoEntry]],
           rem |-> RemoteDelete(rem, path), res |-> Ok(<<>>, NoSha), calls |-> r.n]
     ELSE [eng |-> eng, rem |-> rem, res |-> Fail(r.err), calls |-> r.n]

\* the directory of a sharded collection: never cached, so always asked of
\* the remote, which knows it while it holds a file
DirPresent(rem) == \E id \in Ids : rem.files[ItemPath(id)].present

existsDir(eng, rem, faults) ==
  LET r == retryWithBackoff(faults, IF DirPresent(rem) THEN 200 ELSE 404)
  IN IF r.err.kind = "none" THEN [eng |-> eng, res |-> OkBool(TRUE), calls |-> r.n]
     ELSE IF r.err.status = 404
     THEN [eng |-> eng, res |-> OkBool(FALSE), calls |-> r.n]
     ELSE [eng |-> eng, res |-> Fail(r.err), calls |-> r.n]

\* the ids whose record blob the directory lists, in listing order
RECURSIVE ListedFrom(_, _)
ListedFrom(rem, id) ==
  IF id \notin Ids THEN <<>>
  ELSE (IF rem.files[ItemPath(id)].present THEN <<id>> ELSE <<>>)
         \o ListedFrom(rem, id + 1)

listDirectory(eng, rem, faults) ==
  LET r == retryWithBackoff(faults, IF DirPresent(rem) THEN 200 ELSE 404)
  IN IF r.err.kind = "none"
     THEN [res |-> Ok(ListedFrom(rem, 1), NoSha), calls |-> r.n]
     ELSE IF r.err.status = 404 THEN [res |-> Ok(<<>>, NoSha), calls |-> r.n]
     ELSE [res |-> Fail(r.err), calls |-> r.n]

\* ------------------------------------------------ TransactionStorageProvider
PendingSha == -2
\* Arrays are shared by reference.  A pending change's `shared` says that its
\* array is the one this.items refers to, its `eng` that it is the one the
\* engine's cache entry holds; a cache entry's `shared` says the same of the
\* entry and this.items.  A change made in place is seen through every holder.
NoPending == [has |-> FALSE, del |-> FALSE, data |-> <<>>, shared |-> FALSE,
              eng |-> FALSE]
Pending(d) == [NoPending EXCEPT !.has = TRUE, !.data = d]
Tombstone == [NoPending EXCEPT !.has = TRUE, !.del = TRUE]
EmptyPending == [p \in Paths |-> NoPending]

\* The storage a collection is bound to: st = [tx, eng, rem, pending]; with
\* tx the TransactionStorageProvider decorates the engine, without it the
\* collection talks to the engine itself.
\* reads, lists: the readJson and listDirectory calls the storage has taken
Storage(tx, eng, rem, pending) ==
  [tx |-> tx, eng |-> eng, rem |-> rem, pending |-> pending, reads |-> 0,
   lists |-> 0]

StExists(st, path, t, faults) ==
  IF st.tx /\ st.pending[path].has
  THEN [st |-> st, res |-> OkBool(TRUE), calls |-> 0]
  ELSE LET o == exists(st.eng, st.rem, path, t, faults)
       IN [st |-> [st EXCEPT !.eng = o.eng], res |-> o.res, calls |-> o.calls]

StExistsDir(st, faults) ==
  LET o == existsDir(st.eng, st.rem, faults)
  IN [st |-> st, res |-> o.res, calls |-> o.calls]

\* mutant: a read goes to the base storage whatever is pending
StReadJsonBase(st, path, ttl, t, faults) ==
  LET o == readJson(st.eng, st.rem, path, ttl, t, faults)
  IN [st |-> [st EXCEPT !.eng = o.eng, !.reads = @ + 1], res |-> o.res,
      calls |-> o.calls, src |-> "engine"]

\* src: whose array the data handed back is
StReadJson(st, path, ttl, t, faults) ==
  IF st.tx /\ st.pending[path].has
  THEN [st |-> [st EXCEPT !.reads = @ + 1],
        res |-> IF st.pending[path].del THEN OkNull(PendingSha)
                ELSE Ok(st.pending[path].data, PendingSha),
        calls |-> 0, src |-> "pending"]
  ELSE LET o == readJson(st.eng, st.rem, path, ttl, t, faults)
       IN [st |-> [st EXCEPT !.eng = o.eng, !.reads = @ + 1,
                             !.pending[path].eng = @ /\ ~o.fetched],
           res |-> o.res, calls |-> o.calls, src |-> "engine"]

\* mutant: a write goes through to the base storage
StWriteJsonThrough(st, path, content, sha, ttl, t, faultAt, faults) ==
  LET o == writeJson(st.eng, st.rem, path, content, sha, ttl, t, faultAt, faults)
  IN [st |-> [st EXCEPT !.eng = o.eng, !.rem = o.rem], res |-> o.res,
      calls |-> o.calls, sent |-> o.sent, wrote |-> o.wrote]

StWriteJson(st, path, content, sha, ttl, t, faultAt, faults) ==
  IF st.tx
  THEN [st |-> [st EXCEPT !.pending[path] = Pending(content)],
        res |-> Ok(content, PendingSha), calls |-> 0, sent |-> NoSha,
        wrote |-> FALSE]
  ELSE LET o == writeJson(st.eng, st.rem, path, content, sha, ttl, t, faultAt, faults)
       IN [st |-> [st EXCEPT !.eng = o.eng, !.rem = o.rem], res |-> o.res,
           calls |-> o.calls, sent |-> o.sent, wrote |-> o.wrote]

StDeleteFile(st, path, sha, faults) ==
  IF st.tx
  THEN [st |-> [st EXCEPT !.pending[path] = Tombstone],
        res |-> Ok(<<>>, NoSha), calls |-> 0, wrote |-> FALSE]
  ELSE LET o == deleteFile(st.eng, st.rem, path, sha, faults)
       IN [st |-> [st EXCEPT !.eng = o.eng, !.rem = o.rem], res |-> o.res,
           calls |-> o.calls, wrote |-> o.res.ok]

StListDirectory(st, faults) ==
  LET o == listDirectory(st.eng, st.rem, faults)
  IN [st |-> [st EXCEPT !.lists = @ + 1], res |-> o.res, calls |-> o.calls]

\* ---------------------------------------------------------------- Collection
\* c = [items, dataLoaded, lastSha, shas] ; env = [ttl, t, sharded]
\* tr = [hook, call, faults]: the validator or a beforeSave hook rejects the
\* record, or the named remote call of the handler meets `faults`.
ItemPaths == {ItemPath(id) : id \in Ids}
\* --------------------------------------------------- the Indexer on its own
\* The record objects an Indexer is handed, by reference: objects 1 and 2 are
\* equal in every field and distinct.
Objs == <<[id |-> 1, name |-> "a"], [id |-> 1, name |-> "a"],
          [id |-> 2, name |-> "a"], [id |-> 2, name |-> "b"]>>
Refs == 1..Len(Objs)
Values(field) == IF field = "id" THEN {1, 2, 3} ELSE {"a", "b", "c"}

\* this.indexes = new Map(): field -> (value -> Set of objects); a Set is kept
\* as the list of its members in insertion order
NoIndexes == [f \in {} |-> <<>>]

\* if (!fieldIndex.has(val)) fieldIndex.set(val, new Set()); get(val).add(item)
Put(fieldIndex, field, ref) ==
  LET val == Objs[ref][field]
      set == IF val \in DOMAIN fieldIndex THEN fieldIndex[val] ELSE <<>>
  IN [v \in DOMAIN fieldIndex \cup {val} |->
        IF v # val THEN fieldIndex[v]
        ELSE IF \E i \in 1..Len(set) : set[i] = ref THEN set
        ELSE Append(set, ref)]

RECURSIVE PutAll(_, _, _, _)
PutAll(fieldIndex, field, items, i) ==
  IF i > Len(items) THEN fieldIndex
  ELSE PutAll(Put(fieldIndex, field, items[i]), field, items, i + 1)

\* build(items, fields)
IxBuild(items, fields) ==
  [f \in fields |-> PutAll([v \in {} |-> <<>>], f, items, 1)]

\* query(field, value): null without an index of the field
NoHit == [nul |-> TRUE, list |-> <<>>]
IxQuery(indexes, field, value) ==
  IF field \notin DOMAIN indexes THEN NoHit
  ELSE IF value \notin DOMAIN indexes[field] THEN [nul |-> FALSE, list |-> <<>>]
  ELSE [nul |-> FALSE, list |-> indexes[field][value]]

\* add(item)
IxAdd(indexes, ref) == [f \in DOMAIN indexes |-> Put(indexes[f], f, ref)]

\* mutant: remove() takes every object equal to the item out of the bucket
IxRemoveEqual(indexes, ref) ==
  [f \in DOMAIN indexes |->
     [v \in DOMAIN indexes[f] |->
        IF v # Objs[ref][f] THEN indexes[f][v]
        ELSE LET keep(r) == Objs[r] # Objs[ref] IN SelectSeq(indexes[f][v], keep)]]

\* remove(item): matches.delete(item) in the bucket of the item's value
IxRemove(indexes, ref) ==
  [f \in DOMAIN indexes |->
     [v \in DOMAIN indexes[f] |->
        IF v # Objs[ref][f] THEN indexes[f][v]
        ELSE LET keep(r) == r # ref IN SelectSeq(indexes[f][v], keep)]]

\* update(oldItem, newItem)
IxUpdate(indexes, old, new) == IxAdd(IxRemove(indexes, old), new)

\* clear()
IxClear(indexes) == NoIndexes

\* ------------------------------------------- the Indexer of a collection
\* A record has the fields id and name, so the fields build() is given (the
\* keys of the first record) are both or none: built.  The buckets hold
\* record objects, not copies: a member is a record and `at`, the place in
\* this.items of that very object, 0 when the object is no longer in the
\* list.  The members are in the order they were added, which is the order
\* of every bucket.
Fields == {"id", "name"}
Member(rec, at) == [rec |-> rec, at |-> at]
NoIndex == [built |-> FALSE, members |-> <<>>]

\* build(items, Object.keys(items[0])) over the list that becomes this.items
IndexBuild(items) ==
  [built |-> items # <<>>,
   members |-> [i \in 1..Len(items) |-> Member(items[i], i)]]

\* hasIndex(field)
hasIndex(ix, field) == ix.built /\ field \in Fields

\* the bucket of `value` under `field`, as a list
Bucket(ix, field, value) ==
  LET hit(m) == m.rec[field] = value
      picked == SelectSeq(ix.members, hit)
  IN [i \in 1..Len(picked) |-> picked[i].rec]

\* add(item) of the object at place `at` of this.items: every existing
\* field index takes it
IndexAdd(ix, rec, at) ==
  IF ix.built THEN [ix EXCEPT !.members = Append(@, Member(rec, at))] ELSE ix

\* mutant: remove() leaves the buckets as they are
IndexRemoveNothing(ix, at) == ix

\* remove(item) of the object at place `at` of this.items: it leaves its
\* buckets if it is in them
IndexRemove(ix, at) ==
  LET keep(m) == m.at # at
  IN [ix EXCEPT !.members = SelectSeq(@, keep)]

\* the object at place `at` of this.items is replaced in the list, or leaves
\* it, without remove(): its member stays in the buckets
IndexDetach(ix, at) ==
  [ix EXCEPT !.members = [i \in DOMAIN @ |->
                            IF @[i].at = at THEN Member(@[i].rec, 0) ELSE @[i]]]

\* this.items loses the element at place k: the objects behind it move up
IndexShift(ix, k) ==
  [ix EXCEPT !.members = [i \in DOMAIN @ |->
                            IF @[i].at > k THEN Member(@[i].rec, @[i].at - 1)
                            ELSE @[i]]]

NewCollection ==
  [items |-> <<>>, dataLoaded |-> FALSE, lastSha |-> NoSha,
   shas |-> [p \in ItemPaths |-> NoSha], index |-> NoIndex]

NoTrouble == [hook |-> "none", call |-> "none", faults |-> <<>>]

\* The validator and the middleware a collection is constructed with.
\* validator: "none" (not configured), "pass" or "fail" (validate() throws);
\* middleware: one of "pass", "fail" (beforeSave throws) or "absent" (the
\* middleware has no beforeSave) per configured middleware, in order.
Chain(validator, middleware) == [validator |-> validator, middleware |-> middleware]
NoChain == Chain("none", <<>>)
Stage(stage, at) == [stage |-> stage, at |-> at]

\* for (const mw of this.middleware) if (mw.beforeSave) finalItem = await ...
RECURSIVE RunHooks(_, _)
RunHooks(middleware, i) ==
  IF i > Len(middleware) THEN [ran |-> <<>>, failed |-> "none"]
  ELSE IF middleware[i] = "absent" THEN RunHooks(middleware, i + 1)
  ELSE IF middleware[i] = "fail"
  THEN [ran |-> <<Stage("beforeSave", i)>>, failed |-> "beforeSave"]
  ELSE [RunHooks(middleware, i + 1) EXCEPT !.ran = <<Stage("beforeSave", i)>> \o @]

\* mutant: the hooks run before the validator
RunChainHooksFirst(cfg) ==
  LET r == RunHooks(cfg.middleware, 1)
  IN  IF r.failed # "none" \/ cfg.validator = "none" THEN r
      ELSE [ran |-> r.ran \o <<Stage("validator", 0)>>,
            failed |-> IF cfg.validator = "fail" THEN "validator" ELSE "none"]

\* "1. Validation" then "2. Middleware" of create() and update(): the stages
\* that ran, and the kind of the one that threw
RunChain(cfg) ==
  IF cfg.validator = "fail"
  THEN [ran |-> <<Stage("validator", 0)>>, failed |-> "validator"]
  ELSE [RunHooks(cfg.middleware, 1) EXCEPT
          !.ran = (IF cfg.validator = "pass" THEN <<Stage("validator", 0)>>
                   ELSE <<>>) \o @]
FaultOf(tr, call) == IF tr.call = call THEN tr.faults ELSE <<>>
WriteFaultAt(tr) == IF tr.call = "lookup" THEN 1 ELSE IF tr.call = "write" THEN 2 ELSE 0

ValidationError == PlainError("validation")
HookError == PlainError("beforeSave")
NotFoundError == PlainError("not found")
TypeError == PlainError("TypeError")

RECURSIVE IndexOfFrom(_, _, _)
IndexOfFrom(items, id, k) ==
  IF k > Len(items) THEN 0
  ELSE IF items[k].id = id THEN k ELSE IndexOfFrom(items, id, k + 1)
\* findIndex(i => i.id === id), 0 standing for -1
IndexOf(items, id) == IndexOfFrom(items, id, 1)

RemoveAt(items, k) ==
  [j \in 1..(Len(items) - 1) |-> IF j < k THEN items[j] ELSE items[j + 1]]

EngShared(st) == st.eng.stale[CollPath].present /\ st.eng.stale[CollPath].shared

SetShared(eng, path, b) ==
  [cache |-> [eng.cache EXCEPT ![path].entry.shared =
                                 eng.cache[path].entry.present /\ b],
   stale |-> [eng.stale EXCEPT ![path].shared = eng.stale[path].present /\ b]]

SetData(eng, path, data) ==
  [cache |-> [eng.cache EXCEPT ![path].entry.data =
                                 IF eng.cache[path].entry.present THEN data ELSE @],
   stale |-> [eng.stale EXCEPT ![path].data =
                                 IF eng.stale[path].present THEN data ELSE @]]

\* The collection file's array held by `src` ("items", "engine", "pending") is
\* changed in place to `data`: every holder of that array shows the change.
Poke(c, st, src, data) ==
  LET pend == st.pending[CollPath]
      inItems == \/ src = "items"
                 \/ src = "engine" /\ EngShared(st)
                 \/ src = "pending" /\ pend.shared
      inEngine == \/ src = "engine"
                  \/ src = "items" /\ EngShared(st)
                  \/ src = "pending" /\ pend.eng
      inPending == /\ pend.has /\ ~pend.del
                   /\ \/ src = "pending"
                      \/ src = "items" /\ pend.shared
                      \/ src = "engine" /\ pend.eng
  IN [c |-> IF inItems THEN [c EXCEPT !.items = data] ELSE c,
      st |-> [st EXCEPT !.eng = IF inEngine THEN SetData(@, CollPath, data) ELSE @,
                        !.pending[CollPath].data = IF inPending THEN data ELSE @]]

\* After the array of `src` ("fresh" for a new one) was written to the
\* collection file, and assigned to this.items when `assigned`: who holds it.
\* `before` is the storage as the write found it, `after` as it left it.
Rebind(before, after, src, assigned) ==
  LET pend == before.pending[CollPath]
      isItems == \/ assigned \/ src = "items"
                 \/ src = "engine" /\ EngShared(before)
                 \/ src = "pending" /\ pend.shared
      isEngine == \/ src = "engine"
                  \/ src = "items" /\ EngShared(before)
                  \/ src = "pending" /\ pend.eng
  IN IF after.tx
     THEN [after EXCEPT !.pending[CollPath].shared = isItems,
                        !.pending[CollPath].eng = isEngine,
                        !.eng = IF assigned THEN SetShared(@, CollPath, isEngine)
                                ELSE @]
     ELSE [after EXCEPT !.eng = SetShared(@, CollPath, isItems)]

\* this.items is assigned a new array
Unbind(st) ==
  [st EXCEPT !.eng = SetShared(@, CollPath, FALSE),
             !.pending[CollPath].shared = FALSE]

\* what a handler hands back: the collection, the storage, the outcome, the
\* remote calls made, the version sent with its write and whether it wrote
Out(c, st, res, calls, sent, wrote) ==
  [c |-> c, st |-> st, res |-> res, calls |-> calls, sent |-> sent, wrote |-> wrote]

\* `const x = await e; F(x)`: e is evaluated once and F continues with it
With(e, F(_)) == CHOOSE r \in {F(x) : x \in {e}} : TRUE

\* ------------------------------------------------------------ QueryOptions
\* the order `<` puts on the values of a field: numbers for id, code unit
\* order for the one-letter names
NameOrder == <<"a", "b", "c">>
Rank(field, value) ==
  IF field = "id" THEN value ELSE CHOOSE i \in 1..Len(NameOrder) : NameOrder[i] = value

\* a filter; the value of "in" is a set of values
Filter(field, operator, value) == [field |-> field, operator |-> operator, value |-> value]
SortKey(field, order) == [field |-> field, order |-> order]
\* pagination: { limit, offset = 0 }, limit 0 for none given
Page(limit, offset) == [on |-> TRUE, limit |-> limit, offset |-> offset]
NoPage == [on |-> FALSE, limit |-> 0, offset |-> 0]
Query(filters, sort, page) == [has |-> TRUE, filters |-> filters, sort |-> sort, page |-> page]
\* find() called with no argument
NoQuery == [has |-> FALSE, filters |-> <<>>, sort |-> <<>>, page |-> NoPage]

\* the switch on filter.operator; the names are single letters, so a name
\* contains a string when it is that string
Matches(item, filter) ==
  LET val == item[filter.field]
  IN CASE filter.operator = "eq" -> val = filter.value
       [] filter.operator = "neq" -> val # filter.value
       [] filter.operator = "gt" -> Rank(filter.field, val) > Rank(filter.field, filter.value)
       [] filter.operator = "gte" -> Rank(filter.field, val) >= Rank(filter.field, filter.value)
       [] filter.operator = "lt" -> Rank(filter.field, val) < Rank(filter.field, filter.value)
       [] filter.operator = "lte" -> Rank(filter.field, val) <= Rank(filter.field, filter.value)
       [] filter.operator = "contains" -> filter.field = "name" /\ val = filter.value
       [] filter.operator = "in" -> val \in filter.value
       [] OTHER -> TRUE

\* for (const filter of options.filters) result = result.filter(...)
RECURSIVE ApplyFilters(_, _)
ApplyFilters(result, filters) ==
  IF filters = <<>> THEN result
  ELSE LET keep(item) == Matches(item, Head(filters))
       IN ApplyFilters(SelectSeq(result, keep), Tail(filters))

\* the comparator of result.sort() for one sort key: -1, 0 or 1
Compare(a, b, sort) ==
  LET aVal == Rank(sort.field, a[sort.field])
      bVal == Rank(sort.field, b[sort.field])
  IN IF aVal < bVal THEN (IF sort.order = "asc" THEN -1 ELSE 1)
     ELSE IF aVal > bVal THEN (IF sort.order = "asc" THEN 1 ELSE -1)
     ELSE 0

\* Array.prototype.sort is stable: x goes behind every element it does not
\* come before
RECURSIVE InsertSorted(_, _, _)
InsertSorted(sorted, x, sort) ==
  IF sorted = <<>> THEN <<x>>
  ELSE IF Compare(x, Head(sorted), sort) < 0 THEN <<x>> \o sorted
  ELSE <<Head(sorted)>> \o InsertSorted(Tail(sorted), x, sort)

RECURSIVE SortBy(_, _, _)
SortBy(list, k, sort) ==
  IF k = 0 THEN <<>> ELSE InsertSorted(SortBy(list, k - 1, sort), list[k], sort)

\* for (const sort of options.sort) result.sort(...)
RECURSIVE ApplySort(_, _)
ApplySort(result, sorts) ==
  IF sorts = <<>> THEN result
  ELSE ApplySort(SortBy(result, Len(result), Head(sorts)), Tail(sorts))

\* result.slice(offset, limit ? offset + limit : undefined)
Slice(result, page) ==
  IF ~page.on THEN result
  ELSE SubSeq(result, page.offset + 1,
              IF page.limit # 0 /\ page.offset + page.limit < Len(result)
              THEN page.offset + page.limit ELSE Len(result))

applyQueryOptions(items, options) ==
  Slice(ApplySort(ApplyFilters(items, options.filters), options.sort), options.page)

\* the reads of the listed record blobs (issued together, each on its own
\* path); `faults` meet the first of them
RECURSIVE ReadShards(_, _, _, _, _, _)
ReadShards(c, st, ids, ttl, t, faults) ==
  IF ids = <<>>
  THEN [c |-> c, st |-> st, items |-> <<>>, err |-> NoErr, calls |-> 0, nul |-> FALSE]
  ELSE With(StReadJson(st, ItemPath(Head(ids)), ttl, t, faults), LAMBDA r :
       With(ReadShards(IF r.res.ok THEN [c EXCEPT !.shas[ItemPath(Head(ids))] = r.res.sha]
                       ELSE c,
                       r.st, Tail(ids), ttl, t, <<>>), LAMBDA rest :
         [c |-> rest.c, st |-> rest.st,
          items |-> (IF r.res.ok /\ ~r.res.nul THEN r.res.data ELSE <<>>) \o rest.items,
          err |-> IF r.res.ok THEN rest.err ELSE r.res.err,
          calls |-> r.calls + rest.calls,
          nul |-> (r.res.ok /\ r.res.nul) \/ rest.nul]))

\* find() of an unloaded sharded collection: list, read every blob, keep
FindSharded(c, ex, env, tr) ==
  With(StListDirectory(ex.st, FaultOf(tr, "list")), LAMBDA l :
    IF ~l.res.ok
    THEN Out(c, l.st, Fail(l.res.err), ex.calls + l.calls, NoSha, FALSE)
    ELSE With(ReadShards(c, l.st, l.res.data, env.ttl, env.t, FaultOf(tr, "read")),
              LAMBDA rs :
      IF rs.err.kind # "none"
      THEN Out(rs.c, rs.st, Fail(rs.err), ex.calls + l.calls + rs.calls, NoSha, FALSE)
      ELSE IF rs.nul
      THEN Out(rs.c, rs.st, Fail(TypeError), ex.calls + l.calls + rs.calls, NoSha, FALSE)
      ELSE Out([rs.c EXCEPT !.items = rs.items, !.dataLoaded = TRUE,
                            !.index = IndexBuild(rs.items)], rs.st,
               Ok(rs.items, NoSha), ex.calls + l.calls + rs.calls, NoSha, FALSE)))

\* find() of an unloaded single-file collection: read, keep a new array
FindSingle(c, ex, env, tr) ==
  With(StReadJson(ex.st, CollPath, env.ttl, env.t, FaultOf(tr, "read")), LAMBDA r :
    IF ~r.res.ok THEN Out(c, r.st, Fail(r.res.err), ex.calls + r.calls, NoSha, FALSE)
    ELSE IF r.res.nul
    THEN Out([c EXCEPT !.lastSha = r.res.sha], r.st, Fail(TypeError),
             ex.calls + r.calls, NoSha, FALSE)
    ELSE Out([c EXCEPT !.items = r.res.data, !.dataLoaded = TRUE, !.lastSha = r.res.sha,
                       !.index = IndexBuild(r.res.data)],
             Unbind(r.st), Ok(r.res.data, NoSha), ex.calls + r.calls, NoSha, FALSE))

\* find(query) of a loaded collection takes the bucket of the index when the
\* query has one filter, an "eq" on an indexed field
UsesIndex(c, q) ==
  /\ q.has /\ Len(q.filters) = 1 /\ q.filters[1].operator = "eq"
  /\ hasIndex(c.index, q.filters[1].field)

\* what find(query) of a loaded collection returns
LoadedResult(c, q) ==
  IF UsesIndex(c, q) THEN Bucket(c.index, q.filters[1].field, q.filters[1].value)
  ELSE IF q.has THEN applyQueryOptions(c.items, q)
  ELSE c.items

\* find(query): a query object, or none (a predicate function is not modelled)
findQuery(c, st, env, tr, q) ==
  With(IF env.sharded THEN StExistsDir(st, FaultOf(tr, "exists"))
       ELSE StExists(st, CollPath, env.t, FaultOf(tr, "exists")), LAMBDA ex :
    IF ~ex.res.ok THEN Out(c, ex.st, Fail(ex.res.err), ex.calls, NoSha, FALSE)
    ELSE IF ~ex.res.yes THEN Out(c, ex.st, Ok(<<>>, NoSha), ex.calls, NoSha, FALSE)
    ELSE IF c.dataLoaded
    THEN Out(c, ex.st, Ok(LoadedResult(c, q), NoSha), ex.calls, NoSha, FALSE)
    ELSE With(IF env.sharded THEN FindSharded(c, ex, env, tr)
              ELSE FindSingle(c, ex, env, tr), LAMBDA f :
      IF f.res.ok /\ q.has
      THEN [f EXCEPT !.res.data = applyQueryOptions(@, q)]
      ELSE f))

\* find() without a query
find(c, st, env, tr) == findQuery(c, st, env, tr, NoQuery)

\* what a handler has asked of the storage: readJson and listDirectory calls
Asked(o, reads, lists) ==
  [c |-> o.c, st |-> o.st, res |-> o.res, calls |-> o.calls, sent |-> o.sent,
   wrote |-> o.wrote, reads |-> reads, lists |-> lists]

\* the first record of the list with the id, or null
First(items, id) ==
  IF IndexOf(items, id) = 0 THEN OkNull(NoSha)
  ELSE Ok(<<items[IndexOf(items, id)]>>, NoSha)

\* findById() by way of find(): the loading find() lists the directory of a
\* sharded collection and reads every blob
FindByIdScan(c, st, id, env, tr) ==
  With(find(c, st, env, tr), LAMBDA f :
    Asked(IF f.res.ok THEN [f EXCEPT !.res = First(f.res.data, id)] ELSE f,
          IF c.dataLoaded \/ ~f.c.dataLoaded THEN 0
          ELSE IF env.sharded THEN Len(f.c.items) ELSE 1,
          IF env.sharded /\ ~c.dataLoaded /\ f.c.dataLoaded THEN 1 ELSE 0))

\* mutant: findById() of an unloaded sharded collection goes by way of find()
FindByIdShardedScan(c, st, id, env, tr) == FindByIdScan(c, st, id, env, tr)

\* findById() of a sharded collection that cannot use the index: one read,
\* of the record's own blob; a 404 means null
FindByIdSharded(c, st, id, env, tr) ==
  With(StReadJson(st, ItemPath(id), env.ttl, env.t, FaultOf(tr, "read")), LAMBDA r :
    IF r.res.ok
    THEN Asked(Out([c EXCEPT !.shas[ItemPath(id)] = r.res.sha], r.st,
                   IF r.res.nul THEN OkNull(NoSha) ELSE Ok(r.res.data, NoSha),
                   r.calls, NoSha, FALSE), 1, 0)
    ELSE IF r.res.err.status = 404
    THEN Asked(Out(c, r.st, OkNull(NoSha), r.calls, NoSha, FALSE), 1, 0)
    ELSE Asked(Out(c, r.st, Fail(r.res.err), r.calls, NoSha, FALSE), 1, 0))

findById(c, st, id, env, tr) ==
  IF c.dataLoaded /\ hasIndex(c.index, "id")
  THEN Asked(Out(c, st, First(Bucket(c.index, "id", id), id), 0, NoSha, FALSE), 0, 0)
  ELSE IF env.sharded THEN FindByIdSharded(c, st, id, env, tr)
  ELSE FindByIdScan(c, st, id, env, tr)

\* the sharded branch of create(): one write of the record's own blob
CreateSharded(c, st, item, env, tr) ==
  With(StWriteJson(st, ItemPath(item.id), <<item>>, c.shas[ItemPath(item.id)],
                   env.ttl, env.t, WriteFaultAt(tr), tr.faults), LAMBDA w :
    IF ~w.res.ok THEN Out(c, w.st, Fail(w.res.err), w.calls, w.sent, FALSE)
    ELSE Out([c EXCEPT !.shas[ItemPath(item.id)] = w.res.sha,
                       !.items = IF ~c.dataLoaded THEN @
                                 ELSE IF IndexOf(@, item.id) > 0
                                 THEN [@ EXCEPT ![IndexOf(@, item.id)] = item]
                                 ELSE Append(@, item),
                       !.index = IF ~c.dataLoaded THEN @
                                 ELSE IF IndexOf(c.items, item.id) > 0
                                 THEN IndexAdd(IndexDetach(@, IndexOf(c.items, item.id)),
                                               item, IndexOf(c.items, item.id))
                                 ELSE IndexAdd(@, item, Len(c.items) + 1)],
             w.st, Ok(<<item>>, w.res.sha), w.calls, w.sent, w.wrote))

\* what create() starts from: [st, items, lastSha, calls, src, nul]
Start(st, items, lastSha, calls, src, nul) ==
  [st |-> st, items |-> items, lastSha |-> lastSha, calls |-> calls, src |-> src,
   nul |-> nul]

\* the array create() starts from when nothing is loaded: the stored one when
\* it can be read, else an empty one (whatever the read failed with)
CreatePreRead(c, st, env, tr) ==
  With(StExists(st, CollPath, env.t, FaultOf(tr, "exists")), LAMBDA ex :
    IF ~ex.res.ok \/ ~ex.res.yes
    THEN Start(ex.st, <<>>, c.lastSha, ex.calls, "fresh", FALSE)
    ELSE With(StReadJson(ex.st, CollPath, env.ttl, env.t, FaultOf(tr, "read")),
              LAMBDA r :
      IF ~r.res.ok
      THEN Start(r.st, <<>>, c.lastSha, ex.calls + r.calls, "fresh", FALSE)
      ELSE Start(r.st, r.res.data, r.res.sha, ex.calls + r.calls, r.src, r.res.nul)))

\* create(): push() on the array that was read changes it where it is held;
\* then the write
CreateWrite(c, pre, item, env, tr) ==
  With(IF pre.src = "fresh"
       THEN [c |-> [c EXCEPT !.lastSha = pre.lastSha], st |-> pre.st]
       ELSE Poke([c EXCEPT !.lastSha = pre.lastSha], pre.st, pre.src,
                 Append(pre.items, item)), LAMBDA pk :
  With(StWriteJson(pk.st, CollPath, Append(pre.items, item), pre.lastSha, env.ttl,
                   env.t, WriteFaultAt(tr), tr.faults), LAMBDA w :
    IF ~w.res.ok
    THEN Out([pk.c EXCEPT !.dataLoaded = @ /\ w.res.err.kind # "concurrency"],
             w.st, Fail(w.res.err), pre.calls + w.calls, w.sent, FALSE)
    ELSE Out([pk.c EXCEPT !.lastSha = w.res.sha,
                          !.items = IF c.dataLoaded THEN Append(pre.items, item) ELSE @,
                          !.index = IF c.dataLoaded
                                    THEN IndexAdd(@, item, Len(pre.items) + 1) ELSE @],
             Rebind(pk.st, w.st, pre.src, c.dataLoaded),
             Ok(<<item>>, w.res.sha), pre.calls + w.calls, w.sent, w.wrote)))

\* the single-file branch of create()
CreateSingle(c, st, item, env, tr) ==
  With(IF c.dataLoaded THEN Start(st, c.items, c.lastSha, 0, "fresh", FALSE)
       ELSE CreatePreRead(c, st, env, tr), LAMBDA pre :
    IF pre.nul
    THEN Out([c EXCEPT !.lastSha = pre.lastSha], pre.st, Fail(TypeError), pre.calls,
             NoSha, FALSE)
    ELSE CreateWrite(c, pre, item, env, tr))

create(c, st, item, env, tr) ==
  IF tr.hook = "validator" THEN Out(c, st, Fail(ValidationError), 0, NoSha, FALSE)
  ELSE IF tr.hook = "beforeSave" THEN Out(c, st, Fail(HookError), 0, NoSha, FALSE)
  ELSE IF env.sharded THEN CreateSharded(c, st, item, env, tr)
  ELSE CreateSingle(c, st, item, env, tr)

\* update() ends without indexer.update(): the object it replaced in the list
\* stays in the buckets, the one it put there is in none
Replaced(c, id) == [c EXCEPT !.index = IndexDetach(@, IndexOf(c.items, id))]

\* indexer.update(originalItem, finalItem) after the write of update()
Reindexed(c, id, finalItem) ==
  [c EXCEPT !.index = IndexAdd(IndexRemove(@, IndexOf(c.items, id)), finalItem,
                               IndexOf(c.items, id))]

\* update() once the record is changed in memory (pk): validator, hooks, write
UpdateWrite(f, pk, id, finalItem, env, tr) ==
  IF tr.hook = "validator"
  THEN Out(Replaced(pk.c, id), pk.st, Fail(ValidationError), f.calls, NoSha, FALSE)
  ELSE IF tr.hook = "beforeSave"
  THEN Out(Replaced(pk.c, id), pk.st, Fail(HookError), f.calls, NoSha, FALSE)
  ELSE With(IF env.sharded
            THEN StWriteJson(pk.st, ItemPath(id), <<finalItem>>, pk.c.shas[ItemPath(id)],
                             env.ttl, env.t, WriteFaultAt(tr), tr.faults)
            ELSE StWriteJson(pk.st, CollPath, pk.c.items, pk.c.lastSha,
                             env.ttl, env.t, WriteFaultAt(tr), tr.faults), LAMBDA w :
    IF ~w.res.ok
    THEN Out([Replaced(pk.c, id) EXCEPT
                 !.dataLoaded = @ /\ w.res.err.kind # "concurrency"],
             w.st, Fail(w.res.err), f.calls + w.calls, w.sent, FALSE)
    ELSE IF env.sharded
    THEN Out([Reindexed(pk.c, id, finalItem) EXCEPT !.shas[ItemPath(id)] = w.res.sha],
             w.st, Ok(<<finalItem>>, w.res.sha), f.calls + w.calls, w.sent, w.wrote)
    ELSE Out([Reindexed(pk.c, id, finalItem) EXCEPT !.lastSha = w.res.sha],
             Rebind(pk.st, w.st, "items", FALSE),
             Ok(<<finalItem>>, w.res.sha), f.calls + w.calls, w.sent, w.wrote))

\* update(): items[index] = {...items[index], ...updates} changes the array
\* find() handed back, which is this.items, before anything else runs
update(c, st, id, name, env, tr) ==
  With(find(c, st, env, tr), LAMBDA f :
    IF ~f.res.ok THEN f
    ELSE IF IndexOf(f.res.data, id) = 0 THEN [f EXCEPT !.res = Fail(NotFoundError)]
    ELSE With([f.res.data[IndexOf(f.res.data, id)] EXCEPT !.name = name],
              LAMBDA finalItem :
         With(Poke(f.c, f.st, "items",
                   [f.res.data EXCEPT ![IndexOf(f.res.data, id)] = finalItem]),
              LAMBDA pk : UpdateWrite(f, pk, id, finalItem, env, tr))))

\* the sharded branch of delete(): the blob's version is read when unknown
DeleteSharded(c, st, id, env, tr) ==
  With(IF c.shas[ItemPath(id)] = NoSha
       THEN StReadJson(st, ItemPath(id), env.ttl, env.t, FaultOf(tr, "lookup"))
       ELSE [st |-> st, res |-> Ok(<<>>, c.shas[ItemPath(id)]), calls |-> 0,
             src |-> "fresh"], LAMBDA r :
    IF ~r.res.ok THEN Out(c, r.st, Fail(r.res.err), r.calls, NoSha, FALSE)
    ELSE With(StDeleteFile(r.st, ItemPath(id), r.res.sha, FaultOf(tr, "write")),
              LAMBDA d :
      IF ~d.res.ok
      THEN Out(c, d.st, Fail(d.res.err), r.calls + d.calls, r.res.sha, FALSE)
      ELSE Out([c EXCEPT !.shas[ItemPath(id)] = NoSha], d.st, Ok(<<>>, NoSha),
               r.calls + d.calls, r.res.sha, d.wrote)))

\* the single-file branch of delete(): the write of the filtered list
DeleteSingle(c, st, filtered, env, tr) ==
  With(StWriteJson(st, CollPath, filtered, c.lastSha, env.ttl, env.t,
                   WriteFaultAt(tr), tr.faults), LAMBDA o :
    Out(IF o.res.ok THEN [c EXCEPT !.lastSha = o.res.sha]
        ELSE [c EXCEPT !.dataLoaded = @ /\ o.res.err.kind # "concurrency"],
        o.st, o.res, o.calls, o.sent, o.wrote))

\* delete() of the record find() has at index k
DeleteAt(f, k, id, env, tr) ==
  With(IF env.sharded THEN DeleteSharded(f.c, f.st, id, env, tr)
       ELSE DeleteSingle(f.c, f.st, RemoveAt(f.res.data, k), env, tr), LAMBDA w :
    IF ~w.res.ok THEN [w EXCEPT !.calls = f.calls + @]
    ELSE Out([w.c EXCEPT !.items = IF w.c.dataLoaded THEN RemoveAt(f.res.data, k) ELSE @,
                          !.index = IF w.c.dataLoaded
                                    THEN IndexShift(IndexRemove(@, k), k) ELSE @],
             IF env.sharded THEN w.st ELSE Rebind(f.st, w.st, "fresh", w.c.dataLoaded),
             Ok(<<>>, w.res.sha), f.calls + w.calls, w.sent, w.wrote))

\* mutant: delete() of an id that is not there fails as update() does
deleteStrict(c, st, id, env, tr) ==
  With(find(c, st, env, tr), LAMBDA f :
    IF ~f.res.ok THEN f
    ELSE IF IndexOf(f.res.data, id) = 0 THEN [f EXCEPT !.res = Fail(NotFoundError)]
    ELSE DeleteAt(f, IndexOf(f.res.data, id), id, env, tr))

delete(c, st, id, env, tr) ==
  With(find(c, st, env, tr), LAMBDA f :
    IF ~f.res.ok \/ IndexOf(f.res.data, id) = 0 THEN f
    ELSE DeleteAt(f, IndexOf(f.res.data, id), id, env, tr))

\* ------------------------------------------------------------- batch commit
\* the paths in the order the changes are listed
PathSeq == <<"users.json", "users/1.json", "users/2.json">>

\* TransactionStorageProvider.getChanges(): path and content of every pending
\* change, content null (del) for a removal
RECURSIVE ChangesFrom(_, _)
ChangesFrom(pending, k) ==
  IF k > Len(PathSeq) THEN <<>>
  ELSE (IF pending[PathSeq[k]].has
        THEN <<[path |-> PathSeq[k], content |-> pending[PathSeq[k]].data,
                del |-> pending[PathSeq[k]].del]>>
        ELSE <<>>) \o ChangesFrom(pending, k + 1)
getChanges(pending) == ChangesFrom(pending, 1)

\* mutant: the last change is left out of the tree
treeEntriesDropLast(changes) == SubSeq(changes, 1, Len(changes) - 1)

\* step 3: one tree entry per change, sha null (del) for a removal
treeEntries(changes) ==
  [i \in 1..Len(changes) |->
     [path |-> changes[i].path, del |-> changes[i].del, content |-> changes[i].content]]

NoTree == [p \in Paths |-> NoFile]

\* the remote's tree built from a base tree and entries: every content entry
\* is a blob under a new token, every removal entry takes its path out
RECURSIVE RemoteCreateTree(_, _, _)
RemoteCreateTree(base, entries, nextSha) ==
  IF entries = <<>> THEN base
  ELSE LET e == Head(entries)
       IN RemoteCreateTree(
            [base EXCEPT ![e.path] = IF e.del THEN NoFile ELSE File(e.content, nextSha)],
            Tail(entries), IF e.del THEN nextSha ELSE nextSha + 1)

BlobCount(entries) == Cardinality({i \in 1..Len(entries) : ~entries[i].del})

\* the entries the created tree lists in its answer: those at its top level,
\* so a blob inside a directory is not among them
TreeListed(tree, path) == path = CollPath /\ tree[path].present

\* the advance of the head is accepted while the head is the one it builds on
RemoteUpdateRefStatus(rem, latest) == IF rem.head = latest THEN 200 ELSE 409

\* step 6: write-through of the changed paths the new tree lists
RECURSIVE CommitCache(_, _, _, _, _)
CommitCache(eng, changes, tree, ttl, t) ==
  IF changes = <<>> THEN eng
  ELSE LET ch == Head(changes)
           result == Entry(ch.content, tree[ch.path].sha, FALSE)
       IN CommitCache(IF TreeListed(tree, ch.path)
                      THEN [cache |-> CacheSet(eng.cache, ch.path, result, ttl, t),
                            stale |-> [eng.stale EXCEPT ![ch.path] = result]]
                      ELSE eng,
                      Tail(changes), tree, ttl, t)

\* mutant: a failed commit surfaces the error of the remote as it is
CommitFailureRaw(err) == err

\* the error a failed commit surfaces
CommitFailure(err) ==
  IF err.status = 409 THEN ConcurrencyError("batch-commit") ELSE err

\* ------------------------------------------------------------------- state
VARIABLES
  remote,    \* the repository: files, head commit, next token to assign
  now,       \* Date.now()
  cacheTTL,  \* config.cacheTTL ?? DEFAULT_TTL
  engine,    \* per process: the storage engine's fresh tier and staleCache
  opCount,   \* handlers run so far
  last,      \* the last step: handler, arguments and outcome
  writer,    \* per path: the process whose write the remote last accepted
  sharded,   \* the collections' strategy is "sharded"
  coll,      \* per process: its Collection "users" on the engine
  txn,       \* per process: its open Transaction and the collection bound to it
  cm,        \* per process: how far its GitHubStorageProvider.commit has come
  retry,     \* one run of retryWithBackoff: its config, loop counter and outcome
  oracle,    \* the plain list the calls made so far give when replayed
  inflight,  \* the operations one instance has started and not yet finished
  indexer    \* an Indexer on its own: this.indexes

vars == <<remote, now, cacheTTL, engine, opCount, last, writer, sharded, coll,
          txn, cm, retry, oracle, inflight, indexer>>

EmptyEngine == [cache |-> [p \in Paths |-> NoFresh], stale |-> [p \in Paths |-> NoEntry]]
EmptyRemote == [files |-> [p \in Paths |-> NoFile], head |-> 1, nextSha |-> 1]
\* superseded: since the transaction's collection loaded its snapshot, another
\* process has written a path the transaction holds a pending change for
NoTxn == [open |-> FALSE, pending |-> EmptyPending, c |-> NewCollection,
          superseded |-> FALSE]
\* steps: the remote steps of the commit under way answered so far; parent:
\* the parent given to the new commit
Idle == [pc |-> "idle", changes |-> <<>>, latest |-> 0, headTree |-> NoTree,
         base |-> NoTree, tree |-> NoTree, steps |-> <<>>, parent |-> 0]
NoOp == [proc |-> 0, op |-> "none", path |-> "", sha |-> NoSha, content |-> <<>>,
         res |-> Ok(<<>>, NoSha), calls |-> 0, cond |-> FALSE, follows |-> FALSE,
         pre |-> NoFile, answered |-> TRUE, id |-> 0, clean |-> TRUE,
         hook |-> "none", before |-> NewCollection, sent |-> NoSha,
         wrote |-> FALSE, race |-> FALSE, rival |-> <<>>, afterConflict |-> FALSE,
         files |-> NoTree, changes |-> <<>>, tree |-> NoTree,
         superseded |-> FALSE, call |-> "none", cached |-> FALSE,
         moved |-> FALSE, pend |-> NoPending, delegate |-> Ok(<<>>, NoSha),
         hit |-> NoHit, field |-> "", faults |-> <<>>, asked |-> 0,
         query |-> NoQuery, reads |-> 0, lists |-> 0, cfg |-> NoChain, ran |-> <<>>]

\* no operation of the instance is under way; heap: the arrays the instance
\* and its operations refer to, this: the one this.items refers to
NoFlights == [ops |-> <<>>, heap |-> <<>>, this |-> 0]

\* the step follows, with no step in between, a write of `path` that the
\* remote accepted from the same engine
FollowsWrite(p, path) ==
  last.op = "writeJson" /\ last.proc = p /\ last.path = path /\ last.res.ok

\* ------------------------------------------ storage engines on one remote
StoreContents == {<<Rec(1, "a")>>, <<Rec(1, "b")>>}
StorePaths == {"users.json"}

\* the repository is empty, or already holds the collection blob
InitRemotes ==
  {EmptyRemote,
   [EmptyRemote EXCEPT !.files[CollPath] = File(<<Rec(1, "a")>>, 1),
                       !.nextSha = 2, !.head = 2]}

InitStore ==
  /\ remote \in InitRemotes
  /\ now = 0
  /\ cacheTTL \in TTLs
  /\ engine = [p \in Procs |-> EmptyEngine]
  /\ opCount = 0
  /\ last = NoOp
  /\ writer = [p \in Paths |-> 0]
  /\ sharded = FALSE
  /\ coll = [p \in Procs |-> NewCollection]
  /\ txn = [p \in Procs |-> NoTxn]
  /\ cm = [p \in Procs |-> Idle]
  /\ retry = NoRetry
  /\ oracle = <<>>
  /\ inflight = NoFlights
  /\ indexer = NoIndexes

Budget == opCount < MaxOps

SReadJson(p, path, faults) ==
  /\ Budget
  /\ LET o == readJson(engine[p], remote, path, cacheTTL, now, faults)
     IN /\ engine' = [engine EXCEPT ![p] = o.eng]
        /\ last' = [NoOp EXCEPT !.proc = p, !.op = "readJson", !.path = path,
                                !.res = o.res, !.calls = o.calls, !.cond = o.cond,
                                !.follows = FollowsWrite(p, path),
                                !.answered = (faults \in Transient),
                                !.faults = faults]
  /\ opCount' = opCount + 1
  /\ UNCHANGED <<remote, now, cacheTTL, writer, sharded, coll, txn, cm,
                 retry, oracle, inflight, indexer>>

SWriteJson(p, path, content, sha, faultAt, faults) ==
  /\ Budget
  /\ LET o == writeJson(engine[p], remote, path, content, sha, cacheTTL, now,
                        faultAt, faults)
     IN /\ engine' = [engine EXCEPT ![p] = o.eng]
        /\ remote' = o.rem
        /\ last' = [NoOp EXCEPT !.proc = p, !.op = "writeJson", !.path = path,
                                !.sha = sha, !.content = content, !.res = o.res,
                                !.calls = o.calls, !.pre = remote.files[path],
                                !.answered = (faults \in Transient)]
        /\ writer' = IF o.wrote THEN [writer EXCEPT ![path] = p] ELSE writer
  /\ opCount' = opCount + 1
  /\ UNCHANGED <<now, cacheTTL, sharded, coll, txn, cm,
                 retry, oracle, inflight, indexer>>

\* the step follows, with no step in between, a readJson of `path` by the same
\* engine that the remote answered with "not found"
FollowsNotFound(p, path) ==
  /\ last.op = "readJson" /\ last.proc = p /\ last.path = path
  /\ last.res.err.status = 404

SExists(p, path, faults) ==
  /\ Budget
  /\ LET o == exists(engine[p], remote, path, now, faults)
     IN /\ engine' = [engine EXCEPT ![p] = o.eng]
        /\ last' = [NoOp EXCEPT !.proc = p, !.op = "exists", !.path = path,
                                !.res = o.res, !.calls = o.calls,
                                !.answered = (faults \in Transient),
                                !.follows = FollowsNotFound(p, path)]
  /\ opCount' = opCount + 1
  /\ UNCHANGED <<remote, now, cacheTTL, writer, sharded, coll, txn, cm,
                 retry, oracle, inflight, indexer>>

SDeleteFile(p, path, sha, faults) ==
  /\ Budget
  /\ LET o == deleteFile(engine[p], remote, path, sha, faults)
     IN /\ engine' = [engine EXCEPT ![p] = o.eng]
        /\ remote' = o.rem
        /\ last' = [NoOp EXCEPT !.proc = p, !.op = "deleteFile", !.path = path,
                                !.sha = sha, !.res = o.res, !.calls = o.calls,
                                !.pre = remote.files[path],
                                !.answered = (faults \in Transient)]
  /\ opCount' = opCount + 1
  /\ UNCHANGED <<now, cacheTTL, writer, sharded, coll, txn, cm,
                 retry, oracle, inflight, indexer>>

\* Date.now() is read only through the expiry of a fresh-tier entry: the
\* clock is advanced only while some entry carries one.
Tick ==
  /\ now < MaxTime
  /\ \E p \in Procs, path \in Paths : engine[p].cache[path].expiry # NoExpiry
  /\ now' = now + 1
  /\ last' = [NoOp EXCEPT !.op = "tick"]
  /\ UNCHANGED <<remote, cacheTTL, engine, opCount, writer, sharded, coll, txn, cm,
                 retry, oracle, inflight, indexer>>

\* the tokens a caller can hold: none, or any the remote has issued
Shas == 0..(remote.nextSha - 1)

NextStore ==
  \/ \E p \in Procs, path \in StorePaths, f \in FaultPlans(1) :
        SReadJson(p, path, f.faults)
  \/ \E p \in Procs, path \in StorePaths, c \in StoreContents,
        f \in FaultPlans(2) :
        \E s \in Shas : /\ (s # NoSha => f.at # 1)
                         /\ SWriteJson(p, path, c, s, f.at, f.faults)
  \/ Tick

SpecStore == InitStore /\ [][NextStore]_vars

\* the same engines with exists() and deleteFile() called as well
NextCache ==
  \/ NextStore
  \/ \E p \in Procs, path \in StorePaths, f \in FaultPlans(1) :
        SExists(p, path, f.faults)
  \/ \E p \in Procs, path \in StorePaths, f \in FaultPlans(1) :
        \E s \in Shas : SDeleteFile(p, path, s, f.faults)

SpecCache == InitStore /\ [][NextCache]_vars

\* ------------------------------------------- collections on one remote
\* the repository as a collection of either strategy finds it: empty, or
\* holding record 1
InitLayout(layout) ==
  /\ sharded = layout
  /\ remote \in
       {EmptyRemote,
        [EmptyRemote EXCEPT
           !.files[IF sharded THEN ItemPath(1) ELSE CollPath] = File(<<Rec(1, "a")>>, 1),
           !.nextSha = 2, !.head = 2]}
  /\ now = 0
  /\ cacheTTL = DEFAULT_TTL
  /\ engine = [p \in Procs |-> EmptyEngine]
  /\ opCount = 0
  /\ last = NoOp
  /\ writer = [p \in Paths |-> 0]
  /\ coll = [p \in Procs |-> NewCollection]
  /\ txn = [p \in Procs |-> NoTxn]
  /\ cm = [p \in Procs |-> Idle]
  /\ retry = NoRetry
  /\ oracle = <<>>
  /\ inflight = NoFlights
  /\ indexer = NoIndexes

Env == [ttl |-> cacheTTL, t |-> now, sharded |-> sharded]
Direct(p) == Storage(FALSE, engine[p], remote, EmptyPending)

Permanent == <<500, 500, 500, 500>>
Trouble(hook, call, faults) == [hook |-> hook, call |-> call, faults |-> faults]
ReadTroubles == {NoTrouble, Trouble("none", "read", Permanent)}
CreateTroubles ==
  {NoTrouble, Trouble("validator", "none", <<>>), Trouble("none", "write", Permanent),
   Trouble("none", "read", Permanent)}
UpdateTroubles ==
  {NoTrouble, Trouble("validator", "none", <<>>), Trouble("beforeSave", "none", <<>>),
   Trouble("none", "read", Permanent), Trouble("none", "write", Permanent),
   Trouble("none", "write", <<503>>)}
DeleteTroubles ==
  {NoTrouble, Trouble("none", "write", Permanent)}

\* the name a process gives the records it writes
Mark(p) == IF p = 1 THEN "b" ELSE "c"

\* the step follows a step of the same process that failed with a conflict
AfterConflict(p) == last.proc = p /\ last.res.err.kind = "concurrency"

\* asked: the readJson and listDirectory calls the handler made of its storage.
\* what a step records beside the handler's outcome: the query of a find(),
\* the storage calls of a findById(), the validator and hooks configured and
\* those that ran
NoExtra ==
  [query |-> NoQuery, reads |-> 0, lists |-> 0, cfg |-> NoChain, ran |-> <<>>]

\* a handler of the process's collection has run with outcome o
CollStepX(p, op, id, content, tr, o, extra) ==
  /\ opCount < MaxCollOps
  /\ coll' = [coll EXCEPT ![p] = o.c]
  /\ engine' = [engine EXCEPT ![p] = o.st.eng]
  /\ remote' = o.st.rem
  /\ writer' = IF o.wrote
               THEN [writer EXCEPT ![IF sharded THEN ItemPath(id) ELSE CollPath] = p]
               ELSE writer
  /\ last' = [NoOp EXCEPT
                !.proc = p, !.op = op, !.id = id, !.content = content,
                !.res = o.res, !.calls = o.calls, !.sent = o.sent,
                !.wrote = o.wrote, !.before = coll[p],
                !.clean = (tr.hook = "none" /\ tr.faults \in Transient),
                !.hook = tr.hook, !.call = tr.call,
                !.cached = CacheGet(engine[p].cache, CollPath, now).entry.present,
                !.pre = remote.files[IF sharded /\ id # 0 THEN ItemPath(id) ELSE CollPath],
                !.afterConflict = AfterConflict(p),
                !.race = /\ last.op = op /\ last.res.ok /\ last.proc # p
                         /\ last.id = id /\ last.before.dataLoaded
                         /\ coll[p].dataLoaded
                         /\ last.before.lastSha = coll[p].lastSha
                         /\ last.before.items = coll[p].items,
                !.rival = last.content,
                !.query = extra.query, !.reads = extra.reads, !.lists = extra.lists,
                !.asked = o.st.reads + o.st.lists,
                !.cfg = extra.cfg, !.ran = extra.ran]
  /\ txn' = [q \in Procs |->
               IF /\ q # p /\ o.wrote /\ txn[q].c.dataLoaded
                  /\ txn[q].pending[IF sharded THEN ItemPath(id) ELSE CollPath].has
               THEN [txn[q] EXCEPT !.superseded = TRUE]
               ELSE txn[q]]
  /\ opCount' = opCount + 1
  /\ UNCHANGED <<now, cacheTTL, sharded, cm,
                 retry, inflight, indexer>>

CollStep(p, op, id, content, tr, o) == CollStepX(p, op, id, content, tr, o, NoExtra)

CFind(p, tr) ==
  /\ \E o \in {find(coll[p], Direct(p), Env, tr)} : CollStep(p, "find", 0, <<>>, tr, o)
  /\ UNCHANGED oracle

CCreate(p, id, name, tr) ==
  \E o \in {create(coll[p], Direct(p), Rec(id, name), Env, tr)} :
     /\ CollStep(p, "create", id, <<Rec(id, name)>>, tr, o)
     /\ UNCHANGED oracle

\* content: the record list as the update leaves it in memory
CUpdate(p, id, name, tr) ==
  \E o \in {update(coll[p], Direct(p), id, name, Env, tr)} :
     /\ CollStep(p, "update", id, o.c.items, tr, o)
     /\ UNCHANGED oracle

CDelete(p, id, tr) ==
  \E o \in {delete(coll[p], Direct(p), id, Env, tr)} :
     /\ CollStep(p, "delete", id, <<>>, tr, o)
     /\ UNCHANGED oracle

\* Process 1 is the instance under observation and meets every trouble;
\* process 2 is the other writer.
TroublesOf(p, set) == IF p = 1 THEN set ELSE {NoTrouble}

NextColl ==
  \/ \E p \in Procs : \E tr \in TroublesOf(p, ReadTroubles) : CFind(p, tr)
  \/ \E p \in Procs, id \in Ids :
        \E tr \in TroublesOf(p, CreateTroubles) : CCreate(p, id, Mark(p), tr)
  \/ \E p \in Procs :
        \E tr \in TroublesOf(p, UpdateTroubles) : CUpdate(p, 1, Mark(p), tr)
  \/ \E p \in Procs : \E tr \in TroublesOf(p, DeleteTroubles) : CDelete(p, 1, tr)

\* single-file collections
SpecColl == InitLayout(FALSE) /\ [][NextColl]_vars
\* sharded collections
SpecShard == InitLayout(TRUE) /\ [][NextColl]_vars

\* ------------------------------------------------ a transaction and a writer
InitTx == \E layout \in BOOLEAN : InitLayout(layout)

\* mutant: Transaction.commit() goes on to the storage with no change
NothingPendingNever(changes) == FALSE

\* Transaction.commit(): changes.length === 0
NothingPending(changes) == changes = <<>>

Tx(p) == Storage(TRUE, engine[p], remote, txn[p].pending)
InTx(p) == txn[p].open /\ cm[p].pc = "idle"
CommitFaults == {<<>>, Permanent}

\* db.transaction(fn): a new Transaction, and the collection fn binds to it
TxBegin(p) ==
  /\ ~txn[p].open /\ cm[p].pc = "idle"
  /\ opCount < MaxTxOps
  /\ txn' = [txn EXCEPT ![p] = [NoTxn EXCEPT !.open = TRUE]]
  /\ engine' = [engine EXCEPT ![p] = SetShared(@, CollPath, FALSE)]
  /\ last' = [NoOp EXCEPT !.proc = p, !.op = "begin"]
  /\ UNCHANGED <<remote, now, cacheTTL, opCount, writer, sharded, coll, cm,
                 retry, oracle, inflight, indexer>>

\* a handler of the transaction's collection has run with outcome o; a
\* failure rejects fn, and with it the transaction
TxStep(p, op, id, o) ==
  /\ InTx(p)
  /\ opCount < MaxTxOps
  /\ txn' = [txn EXCEPT ![p] = IF o.res.ok
                               THEN [txn[p] EXCEPT !.pending = o.st.pending, !.c = o.c]
                               ELSE NoTxn]
  /\ engine' = [engine EXCEPT ![p] = o.st.eng]
  /\ remote' = o.st.rem
  /\ last' = [NoOp EXCEPT !.proc = p, !.op = op, !.id = id, !.content = o.c.items,
                          !.res = o.res, !.calls = o.calls, !.before = txn[p].c,
                          !.files = remote.files]
  /\ opCount' = opCount + 1
  /\ UNCHANGED <<now, cacheTTL, writer, sharded, coll, cm,
                 retry, oracle, inflight, indexer>>

TxCreate(p, id) ==
  \E o \in {create(txn[p].c, Tx(p), Rec(id, Mark(p)), Env, NoTrouble)} :
     TxStep(p, "tx.create", id, o)
TxUpdate(p, id) ==
  \E o \in {update(txn[p].c, Tx(p), id, Mark(p), Env, NoTrouble)} :
     TxStep(p, "tx.update", id, o)
TxDelete(p, id) ==
  \E o \in {delete(txn[p].c, Tx(p), id, Env, NoTrouble)} :
     TxStep(p, "tx.delete", id, o)

\* mutant: a failed step is reported and the commit goes on with the next
CommitAbortGoOn(p, op, err, n, faults) ==
  /\ cm' = [cm EXCEPT ![p].steps = Append(@, op),
                       ![p].pc = IF op = "getRef" THEN "getCommit"
                                 ELSE IF op = "getCommit" THEN "createTree"
                                 ELSE IF op = "createTree" THEN "createCommit"
                                 ELSE IF op = "createCommit" THEN "updateRef"
                                 ELSE "idle"]
  /\ txn' = txn
  /\ last' = [NoOp EXCEPT !.proc = p, !.op = op, !.res = Fail(CommitFailure(err)),
                          !.calls = n, !.files = remote.files]
  /\ UNCHANGED <<remote, engine, writer>>

\* a step of commit() has failed: the commit is over, and so the transaction;
\* moved: the head is no longer the one step 1 read
CommitAbort(p, op, err, n, faults) ==
  /\ cm' = [cm EXCEPT ![p] = Idle]
  /\ txn' = [txn EXCEPT ![p] = NoTxn]
  /\ last' = [NoOp EXCEPT !.proc = p, !.op = op, !.res = Fail(CommitFailure(err)),
                          !.calls = n, !.files = remote.files,
                          !.changes = getChanges(txn[p].pending),
                          !.tree = cm[p].tree,
                          !.answered = (faults \in Transient),
                          !.moved = (remote.head # cm[p].latest)]
  /\ UNCHANGED <<remote, engine, writer>>

\* a step of commit() before the last has been answered
CommitAdvance(p, op, next, n) ==
  /\ cm' = [cm EXCEPT ![p] = [next EXCEPT !.steps = Append(cm[p].steps, op)]]
  /\ last' = [NoOp EXCEPT !.proc = p, !.op = op, !.calls = n,
                          !.files = remote.files, !.changes = next.changes,
                          !.tree = next.tree]
  /\ UNCHANGED <<txn, engine, writer>>

\* step 1 of commit(changes, message): the read of the head
CommitGetRef(p, changes, faults) ==
  LET r == retryWithBackoff(faults, 200)
  IN IF r.err.kind # "none" THEN CommitAbort(p, "getRef", r.err, r.n, faults)
     ELSE /\ CommitAdvance(p, "getRef",
               [Idle EXCEPT !.pc = "getCommit", !.changes = changes,
                            !.latest = remote.head,
                            !.headTree = remote.files], r.n)
          /\ UNCHANGED remote

\* fn has returned: Transaction.commit(), which is done when nothing is
\* pending, and else step 1 of commit(), the read of the head
TxCommit(p, faults) ==
  /\ InTx(p)
  /\ opCount < MaxTxOps
  /\ LET changes == getChanges(txn[p].pending)
     IN IF NothingPending(changes)
        THEN /\ faults = <<>>
             /\ txn' = [txn EXCEPT ![p] = NoTxn]
             /\ last' = [NoOp EXCEPT !.proc = p, !.op = "commit"]
             /\ UNCHANGED <<cm, remote, engine, writer>>
        ELSE CommitGetRef(p, changes, faults)
  /\ opCount' = opCount + 1
  /\ UNCHANGED <<now, cacheTTL, sharded, coll,
                 retry, oracle, inflight, indexer>>

\* step 2: the tree of the commit that was the head
CommitGetCommit(p, faults) ==
  /\ cm[p].pc = "getCommit"
  /\ LET r == retryWithBackoff(faults, 200)
     IN IF r.err.kind # "none" THEN CommitAbort(p, "getCommit", r.err, r.n, faults)
        ELSE /\ CommitAdvance(p, "getCommit",
                  [cm[p] EXCEPT !.pc = "createTree", !.base = cm[p].headTree], r.n)
             /\ UNCHANGED remote
  /\ UNCHANGED <<now, cacheTTL, opCount, sharded, coll,
                 retry, oracle, inflight, indexer>>

\* step 3: the new tree, whose blobs the remote stores under new tokens
CommitCreateTree(p, faults) ==
  /\ cm[p].pc = "createTree"
  /\ LET r == retryWithBackoff(faults, 200)
         entries == treeEntries(cm[p].changes)
     IN IF r.err.kind # "none" THEN CommitAbort(p, "createTree", r.err, r.n, faults)
        ELSE /\ CommitAdvance(p, "createTree",
                  [cm[p] EXCEPT !.pc = "createCommit",
                                !.tree = RemoteCreateTree(cm[p].base, entries,
                                                          remote.nextSha)], r.n)
             /\ remote' = [remote EXCEPT !.nextSha = @ + BlobCount(entries)]
  /\ UNCHANGED <<now, cacheTTL, opCount, sharded, coll,
                 retry, oracle, inflight, indexer>>

\* step 4: the new commit on top of the head that was read
CommitCreateCommit(p, faults) ==
  /\ cm[p].pc = "createCommit"
  /\ LET r == retryWithBackoff(faults, 200)
     IN IF r.err.kind # "none" THEN CommitAbort(p, "createCommit", r.err, r.n, faults)
        ELSE /\ CommitAdvance(p, "createCommit",
                  [cm[p] EXCEPT !.pc = "updateRef", !.parent = cm[p].latest], r.n)
             /\ UNCHANGED remote
  /\ UNCHANGED <<now, cacheTTL, opCount, sharded, coll,
                 retry, oracle, inflight, indexer>>

\* steps 5 and 6: the advance of the head, then the cache write-through
CommitUpdateRef(p, faults) ==
  /\ cm[p].pc = "updateRef"
  /\ LET r == retryWithBackoff(faults, RemoteUpdateRefStatus(remote, cm[p].latest))
     IN IF r.err.kind # "none" THEN CommitAbort(p, "updateRef", r.err, r.n, faults)
        ELSE /\ remote' = [remote EXCEPT !.files = cm[p].tree, !.head = @ + 1]
             /\ engine' = [engine EXCEPT ![p] =
                             CommitCache(@, cm[p].changes, cm[p].tree, cacheTTL, now)]
             /\ writer' = [path \in Paths |->
                             IF \E i \in 1..Len(cm[p].changes) :
                                  cm[p].changes[i].path = path
                             THEN p ELSE writer[path]]
             /\ cm' = [cm EXCEPT ![p] = Idle]
             /\ txn' = [txn EXCEPT ![p] = NoTxn]
             /\ last' = [NoOp EXCEPT !.proc = p, !.op = "updateRef", !.calls = r.n,
                                     !.files = remote.files,
                                     !.changes = cm[p].changes, !.tree = cm[p].tree,
                                     !.superseded = txn[p].superseded]
  /\ UNCHANGED <<now, cacheTTL, opCount, sharded, coll,
                 retry, oracle, inflight, indexer>>

\* Process 1 runs transactions; process 2 writes through its collection.
NextTx ==
  \/ TxBegin(1)
  \/ \E id \in Ids : TxCreate(1, id)
  \/ TxUpdate(1, 1)
  \/ TxDelete(1, 1)
  \/ \E f \in CommitFaults : TxCommit(1, f)
  \/ \E f \in CommitFaults : CommitGetCommit(1, f)
  \/ \E f \in CommitFaults : CommitCreateTree(1, f)
  \/ \E f \in CommitFaults : CommitCreateCommit(1, f)
  \/ \E f \in CommitFaults \cup {<<503>>} : CommitUpdateRef(1, f)
  \/ opCount < MaxTxOps /\ CUpdate(2, 1, Mark(2), NoTrouble)
  \/ opCount < MaxTxOps /\ \E id \in Ids : CCreate(2, id, Mark(2), NoTrouble)

SpecTx == InitTx /\ [][NextTx]_vars

\* ------------------------------------- commit() of the engine called directly
MaxCommitOps == 3
\* the changes a caller hands to commit(): none, a write, a removal, both
ChangeLists ==
  {getChanges(EmptyPending),
   getChanges([EmptyPending EXCEPT ![ItemPath(1)] = Pending(<<Rec(1, "b")>>)]),
   getChanges([EmptyPending EXCEPT ![ItemPath(1)] = Tombstone]),
   getChanges([EmptyPending EXCEPT ![ItemPath(1)] = Tombstone,
                                   ![ItemPath(2)] = Pending(<<Rec(2, "b")>>)])}

InitCommit == InitLayout(TRUE)

\* commit(changes, message): "No changes to commit" before anything else,
\* and else step 1
SCommit(p, changes, faults) ==
  /\ cm[p].pc = "idle"
  /\ opCount < MaxCommitOps
  /\ IF changes = <<>>
     THEN /\ faults = <<>>
          /\ last' = [NoOp EXCEPT !.proc = p, !.op = "commit",
                                  !.res = Fail(PlainError("No changes to commit"))]
          /\ UNCHANGED <<cm, txn, remote, engine, writer>>
     ELSE CommitGetRef(p, changes, faults)
  /\ opCount' = opCount + 1
  /\ UNCHANGED <<now, cacheTTL, sharded, coll,
                 retry, oracle, inflight, indexer>>

\* Process 1 commits; process 2 reads and writes through its collection.
NextCommit ==
  \/ \E changes \in ChangeLists, f \in CommitFaults : SCommit(1, changes, f)
  \/ \E f \in CommitFaults : CommitGetCommit(1, f)
  \/ \E f \in CommitFaults : CommitCreateTree(1, f)
  \/ \E f \in CommitFaults : CommitCreateCommit(1, f)
  \/ \E f \in CommitFaults \cup {<<503>>} : CommitUpdateRef(1, f)
  \/ opCount < MaxCommitOps /\ \E id \in Ids : CCreate(2, id, Mark(2), NoTrouble)
  \/ opCount < MaxCommitOps /\ SReadJson(1, ItemPath(1), <<>>)

SpecCommit == InitCommit /\ [][NextCommit]_vars

\* ------------------------------------------------ queries of one instance
MaxQueryOps == 3

\* the queries asked
QuerySeq ==
  <<NoQuery,
    Query(<<Filter("name", "eq", "b")>>, <<>>, NoPage),
    Query(<<Filter("name", "eq", "b")>>, <<SortKey("id", "desc")>>, Page(1, 0)),
    Query(<<>>, <<SortKey("name", "asc")>>, NoPage),
    Query(<<>>, <<SortKey("name", "asc"), SortKey("id", "desc")>>, NoPage),
    Query(<<>>, <<SortKey("id", "desc"), SortKey("name", "asc")>>, Page(2, 0)),
    Query(<<Filter("id", "gt", 1)>>, <<SortKey("name", "desc")>>, Page(1, 1)),
    Query(<<Filter("id", "gte", 1), Filter("name", "neq", "a")>>, <<>>, Page(0, 1)),
    Query(<<Filter("id", "in", {1, 3})>>, <<SortKey("id", "desc")>>, NoPage),
    Query(<<Filter("name", "lte", "b"), Filter("id", "lt", 3)>>, <<>>, NoPage),
    Query(<<Filter("name", "contains", "b")>>, <<SortKey("id", "desc")>>, NoPage)>>

\* the repository the instance finds: three records in the collection file,
\* or one or two record blobs
QueryRemotes ==
  IF sharded
  THEN {[EmptyRemote EXCEPT !.files[ItemPath(1)] = File(<<Rec(1, "b")>>, 1),
                            !.nextSha = 2, !.head = 2],
        [EmptyRemote EXCEPT !.files[ItemPath(1)] = File(<<Rec(1, "b")>>, 1),
                            !.files[ItemPath(2)] = File(<<Rec(2, "a")>>, 2),
                            !.nextSha = 3, !.head = 3]}
  ELSE {[EmptyRemote EXCEPT
           !.files[CollPath] = File(<<Rec(1, "b"), Rec(2, "a"), Rec(3, "b")>>, 1),
           !.nextSha = 2, !.head = 2]}

InitQuery ==
  /\ sharded \in BOOLEAN
  /\ remote \in QueryRemotes
  /\ now = 0
  /\ cacheTTL = DEFAULT_TTL
  /\ engine = [p \in Procs |-> EmptyEngine]
  /\ opCount = 0
  /\ last = NoOp
  /\ writer = [p \in Paths |-> 0]
  /\ coll = [p \in Procs |-> NewCollection]
  /\ txn = [p \in Procs |-> NoTxn]
  /\ cm = [p \in Procs |-> Idle]
  /\ retry = NoRetry
  /\ oracle = <<>>
  /\ inflight = NoFlights
  /\ indexer = NoIndexes

QFind(i) ==
  /\ opCount < MaxQueryOps
  /\ \E o \in {findQuery(coll[1], Direct(1), Env, NoTrouble, QuerySeq[i])} :
        CollStepX(1, "find", 0, <<>>, NoTrouble, o,
                  [NoExtra EXCEPT !.query = QuerySeq[i]])
  /\ UNCHANGED oracle

QFindById(id) ==
  /\ opCount < MaxQueryOps
  /\ \E o \in {findById(coll[1], Direct(1), id, Env, NoTrouble)} :
        CollStepX(1, "findById", id, <<>>, NoTrouble, o,
                  [NoExtra EXCEPT !.reads = o.reads, !.lists = o.lists])
  /\ UNCHANGED oracle

QCreate(id) == opCount < MaxQueryOps /\ CCreate(1, id, "b", NoTrouble)
QUpdate(id) == opCount < MaxQueryOps /\ CUpdate(1, id, "c", NoTrouble)
QDelete(id) == opCount < MaxQueryOps /\ CDelete(1, id, NoTrouble)

NextQuery ==
  \/ \E i \in 1..Len(QuerySeq) : QFind(i)
  \/ \E id \in Ids : QFindById(id)
  \/ \E id \in Ids : QCreate(id)
  \/ QUpdate(1)
  \/ QDelete(1)

SpecQuery == InitQuery /\ [][NextQuery]_vars

\* ------------------- create() and update() with a validator and middleware
MaxHookOps == 2
MaxMiddleware == 2
Outcomes == {"pass", "fail", "absent"}
Chains ==
  {Chain(v, mw) : v \in {"none", "pass", "fail"},
                  mw \in UNION {[1..n -> Outcomes] : n \in 0..MaxMiddleware}}

InitHook == \E layout \in BOOLEAN : InitLayout(layout)

\* the trouble a handler meets when its chain is cfg
ChainTrouble(cfg) == Trouble(RunChain(cfg).failed, "none", <<>>)

HCreate(id, cfg) ==
  /\ opCount < MaxHookOps
  /\ \E o \in {create(coll[1], Direct(1), Rec(id, "b"), Env, ChainTrouble(cfg))} :
        CollStepX(1, "create", id, <<Rec(id, "b")>>, ChainTrouble(cfg), o,
                  [NoExtra EXCEPT !.cfg = cfg, !.ran = RunChain(cfg).ran])
  /\ UNCHANGED oracle

\* update() reaches its chain once find() has handed back a list with the id
HUpdate(id, cfg) ==
  /\ opCount < MaxHookOps
  /\ \E f \in {find(coll[1], Direct(1), Env, NoTrouble)} :
     \E o \in {update(coll[1], Direct(1), id, "c", Env, ChainTrouble(cfg))} :
        CollStepX(1, "update", id, <<Rec(id, "c")>>, ChainTrouble(cfg), o,
                  [NoExtra EXCEPT
                     !.cfg = cfg,
                     !.ran = IF f.res.ok /\ IndexOf(f.res.data, id) # 0
                             THEN RunChain(cfg).ran ELSE <<>>])
  /\ UNCHANGED oracle

HFind ==
  /\ opCount < MaxHookOps
  /\ CFind(1, NoTrouble)

NextHook ==
  \/ \E id \in Ids, cfg \in Chains : HCreate(id, cfg)
  \/ \E id \in Ids, cfg \in Chains : HUpdate(id, cfg)
  \/ HFind

SpecHook == InitHook /\ [][NextHook]_vars

\* ------------------------------------------------- an Indexer called directly
MaxIndexOps == 4
MaxBuild == 2
Snapshots == UNION {[1..n -> Refs] : n \in 0..MaxBuild}

InitIndex == InitLayout(FALSE)

\* a method of the Indexer has run; held: the objects handed to build() and
\* add() and not to remove() since
IndexStep(op, ref, indexes, held) ==
  /\ opCount < MaxIndexOps
  /\ indexer' = indexes
  /\ oracle' = [r \in Refs |-> r \in held]
  /\ opCount' = opCount + 1
  /\ last' = [NoOp EXCEPT !.proc = 1, !.op = op, !.id = ref]
  /\ UNCHANGED <<remote, now, cacheTTL, engine, writer, sharded, coll, txn, cm,
                 retry, inflight>>

\* the objects the Indexer holds at present
Held == {r \in DOMAIN oracle : oracle[r]}

XBuild(items, fields) ==
  IndexStep("build", 0, IxBuild(items, fields), {items[i] : i \in 1..Len(items)})

XAdd(ref) == IndexStep("add", ref, IxAdd(indexer, ref), Held \cup {ref})

XRemove(ref) == IndexStep("remove", ref, IxRemove(indexer, ref), Held \ {ref})

XUpdate(old, new) ==
  IndexStep("update", new, IxUpdate(indexer, old, new), (Held \ {old}) \cup {new})

XClear == IndexStep("clear", 0, IxClear(indexer), {})

XQuery(field, value) ==
  /\ opCount < MaxIndexOps
  /\ opCount' = opCount + 1
  /\ last' = [NoOp EXCEPT !.proc = 1, !.op = "query", !.field = field,
                          !.hit = IxQuery(indexer, field, value)]
  /\ UNCHANGED <<remote, now, cacheTTL, engine, writer, sharded, coll, txn, cm,
                 retry, oracle, inflight, indexer>>

NextIndex ==
  \/ \E items \in Snapshots, fields \in SUBSET Fields : XBuild(items, fields)
  \/ \E ref \in Refs : XAdd(ref)
  \/ \E ref \in Refs : XRemove(ref)
  \/ \E old \in Refs, new \in Refs : XUpdate(old, new)
  \/ XClear
  \/ \E field \in Fields : \E value \in Values(field) : XQuery(field, value)

SpecIndex == InitIndex /\ [][NextIndex]_vars

\* --------------------------- one TransactionStorageProvider called directly
MaxTsOps == 4
TsPaths == {CollPath, ItemPath(1)}
TsContents == {<<Rec(1, "a")>>, <<Rec(2, "b")>>}

InitTxStore == InitLayout(FALSE)

\* a method of the transaction's storage has run with outcome o; delegate is
\* what the same call on the base storage gives
TsStep(op, path, o, delegate) ==
  /\ InTx(1)
  /\ opCount < MaxTsOps
  /\ txn' = [txn EXCEPT ![1].pending = o.st.pending]
  /\ engine' = [engine EXCEPT ![1] = o.st.eng]
  /\ remote' = o.st.rem
  /\ last' = [NoOp EXCEPT !.proc = 1, !.op = op, !.path = path, !.res = o.res,
                          !.calls = o.calls, !.pend = txn[1].pending[path],
                          !.delegate = delegate.res, !.files = remote.files]
  /\ opCount' = opCount + 1
  /\ UNCHANGED <<now, cacheTTL, writer, sharded, coll, cm, retry, oracle, inflight, indexer>>

TsExists(path) ==
  \E o \in {StExists(Tx(1), path, now, <<>>)} :
     TsStep("ts.exists", path, o, exists(engine[1], remote, path, now, <<>>))

TsReadJson(path) ==
  \E o \in {StReadJson(Tx(1), path, cacheTTL, now, <<>>)} :
     TsStep("ts.readJson", path, o,
            readJson(engine[1], remote, path, cacheTTL, now, <<>>))

TsWriteJson(path, content) ==
  \E o \in {StWriteJson(Tx(1), path, content, NoSha, cacheTTL, now, 0, <<>>)} :
     TsStep("ts.writeJson", path, o, o)

TsDeleteFile(path) ==
  \E o \in {StDeleteFile(Tx(1), path, NoSha, <<>>)} :
     TsStep("ts.deleteFile", path, o, o)

NextTxStore ==
  \/ TxBegin(1)
  \/ \E path \in TsPaths : TsExists(path)
  \/ \E path \in TsPaths : TsReadJson(path)
  \/ \E path \in TsPaths, content \in TsContents : TsWriteJson(path, content)
  \/ \E path \in TsPaths : TsDeleteFile(path)

SpecTxStore == InitTxStore /\ [][NextTxStore]_vars

\* ------------------------------- one instance against a plain in-memory list
\* the plain list: append on create, merge patch on update, remove on delete
OracleCreate(list, item) == Append(list, item)
OracleUpdate(list, id, name) ==
  IF IndexOf(list, id) = 0 THEN list
  ELSE [list EXCEPT ![IndexOf(list, id)].name = name]
OracleDelete(list, id) ==
  IF IndexOf(list, id) = 0 THEN list ELSE RemoveAt(list, IndexOf(list, id))

\* an empty repository, a collection of either strategy
InitCrud ==
  /\ \E layout \in BOOLEAN : InitLayout(layout)
  /\ remote = EmptyRemote

CrudFind ==
  /\ \E o \in {find(coll[1], Direct(1), Env, NoTrouble)} :
        CollStep(1, "find", 0, <<>>, NoTrouble, o)
  /\ UNCHANGED oracle

CrudCreate(id) ==
  /\ \E o \in {create(coll[1], Direct(1), Rec(id, "a"), Env, NoTrouble)} :
        CollStep(1, "create", id, <<Rec(id, "a")>>, NoTrouble, o)
  /\ oracle' = OracleCreate(oracle, Rec(id, "a"))

CrudUpdate(id) ==
  /\ \E o \in {update(coll[1], Direct(1), id, "b", Env, NoTrouble)} :
        CollStep(1, "update", id, o.c.items, NoTrouble, o)
  /\ oracle' = OracleUpdate(oracle, id, "b")

CrudDelete(id) ==
  /\ \E o \in {delete(coll[1], Direct(1), id, Env, NoTrouble)} :
        CollStep(1, "delete", id, <<>>, NoTrouble, o)
  /\ oracle' = OracleDelete(oracle, id)

NextCrud ==
  \/ CrudFind
  \/ \E id \in Ids : CrudCreate(id)
  \/ \E id \in Ids : CrudUpdate(id)
  \/ \E id \in Ids : CrudDelete(id)

SpecCrud == InitCrud /\ [][NextCrud]_vars

\* --------------------------- operations of one instance that are under way
MaxFlights == 2

\* the repository holds record 1, and the instance has loaded it with find()
Remote0 ==
  [EmptyRemote EXCEPT !.files[CollPath] = File(<<Rec(1, "a")>>, 1),
                      !.nextSha = 2, !.head = 2]
Env0 == [ttl |-> DEFAULT_TTL, t |-> 0, sharded |-> FALSE]
Loaded0 ==
  find(NewCollection, Storage(FALSE, EmptyEngine, Remote0, EmptyPending), Env0,
       NoTrouble)

InitOverlap ==
  /\ remote = Loaded0.st.rem
  /\ now = 0
  /\ cacheTTL = DEFAULT_TTL
  /\ engine = [p \in Procs |-> IF p = 1 THEN Loaded0.st.eng ELSE EmptyEngine]
  /\ opCount = 0
  /\ last = NoOp
  /\ writer = [p \in Paths |-> 0]
  /\ sharded = FALSE
  /\ coll = [p \in Procs |-> IF p = 1 THEN Loaded0.c ELSE NewCollection]
  /\ txn = [p \in Procs |-> NoTxn]
  /\ cm = [p \in Procs |-> Idle]
  /\ retry = NoRetry
  /\ oracle = <<>>
  /\ inflight = [NoFlights EXCEPT !.heap = <<Loaded0.c.items>>, !.this = 1]
  /\ indexer = NoIndexes

\* the calls the caller makes
Call(op, id, name) == [op |-> op, id |-> id, name |-> name]
Calls ==
  {Call("create", 2, "b"), Call("update", 1, "b"), Call("update", 1, "c"),
   Call("delete", 1, "")}

\* an operation under way: its call, where it stands (sent: its put is with
\* the remote; served: the remote has answered; done), the array its local
\* `items` refers to, the content and version its put carries, the answer
Flight(call, pc, ref, content, sha) ==
  [call |-> call, pc |-> pc, ref |-> ref, content |-> content, sha |-> sha,
   status |-> 0, newSha |-> NoSha, res |-> Ok(<<>>, NoSha)]

\* the caller calls create(), update() or delete() of the loaded instance
\* while no earlier call, or an unfinished one, is under way: the handler
\* runs up to the put of writeJson, its first request (exists() inside find()
\* is answered by the cache)
OvIssue(call) ==
  /\ Len(inflight.ops) < MaxFlights
  /\ \A i \in 1..Len(inflight.ops) : inflight.ops[i].pc # "done"
  /\ coll[1].dataLoaded
  /\ CacheGet(engine[1].cache, CollPath, now).entry.present
  /\ LET items == inflight.heap[inflight.this]
         k == IndexOf(items, call.id)
         fresh == Len(inflight.heap) + 1
     IN IF call.op = "create"
        THEN \* items = [...this.items]; items.push(finalItem)
             /\ inflight' = [inflight EXCEPT
                    !.heap = Append(@, Append(items, Rec(call.id, call.name))),
                    !.ops = Append(@, Flight(call, "sent", fresh,
                                             Append(items, Rec(call.id, call.name)),
                                             coll[1].lastSha))]
             /\ coll' = coll
        ELSE IF k = 0
        THEN \* update: not found; delete: nothing to do
             /\ inflight' = [inflight EXCEPT
                    !.ops = Append(@, [Flight(call, "done", inflight.this, <<>>, NoSha)
                                         EXCEPT !.res = IF call.op = "update"
                                                        THEN Fail(NotFoundError)
                                                        ELSE Ok(<<>>, NoSha)])]
             /\ coll' = coll
        ELSE IF call.op = "update"
        THEN \* items[index] = {...items[index], ...updates} in this.items
             /\ inflight' = [inflight EXCEPT
                    !.heap[inflight.this][k].name = call.name,
                    !.ops = Append(@, Flight(call, "sent", inflight.this,
                                             [items EXCEPT ![k].name = call.name],
                                             coll[1].lastSha))]
             /\ coll' = [coll EXCEPT ![1].items[k].name = call.name]
        ELSE \* filtered = items.filter(...)
             /\ inflight' = [inflight EXCEPT
                    !.heap = Append(@, RemoveAt(items, k)),
                    !.ops = Append(@, Flight(call, "sent", fresh, RemoveAt(items, k),
                                             coll[1].lastSha))]
             /\ coll' = coll
  /\ last' = [NoOp EXCEPT !.proc = 1, !.op = "issue", !.id = call.id]
  /\ UNCHANGED <<remote, now, cacheTTL, engine, opCount, writer, sharded, txn, cm,
                 retry, oracle, indexer>>

\* the remote answers the put of operation i
OvServe(i) ==
  /\ i \in 1..Len(inflight.ops)
  /\ inflight.ops[i].pc = "sent"
  /\ LET f == inflight.ops[i]
         status == RemotePutStatus(remote, CollPath, f.sha)
     IN /\ remote' = IF status = 200 THEN RemotePut(remote, CollPath, f.content)
                     ELSE remote
        /\ inflight' = [inflight EXCEPT
               !.ops[i] = [f EXCEPT !.pc = "served", !.status = status,
                                    !.newSha = IF status = 200 THEN remote.nextSha
                                               ELSE NoSha]]
        /\ writer' = IF status = 200 THEN [writer EXCEPT ![CollPath] = 1] ELSE writer
  /\ last' = [NoOp EXCEPT !.proc = 1, !.op = "serve", !.id = i]
  /\ UNCHANGED <<now, cacheTTL, engine, opCount, sharded, coll, txn, cm, retry,
                 oracle, indexer>>

\* the answer reaches operation i: writeJson caches the content and returns,
\* or throws ConcurrencyError; the handler keeps the version and its array,
\* or marks the collection unloaded.  The buckets of the index are not
\* followed while operations overlap: they hold objects, the arrays of the
\* heap hold records, and no call made here reads the index.
OvResume(i) ==
  /\ i \in 1..Len(inflight.ops)
  /\ inflight.ops[i].pc = "served"
  /\ LET f == inflight.ops[i]
     IN IF f.status = 200
        THEN /\ engine' = [engine EXCEPT ![1] =
                  WriteCache(@, CollPath,
                             Entry(inflight.heap[f.ref], f.newSha,
                                   coll[1].dataLoaded \/ f.ref = inflight.this),
                             cacheTTL, now)]
             /\ coll' = [coll EXCEPT
                  ![1].lastSha = f.newSha,
                  ![1].items = IF coll[1].dataLoaded THEN inflight.heap[f.ref] ELSE @]
             /\ inflight' = [inflight EXCEPT
                  !.this = IF coll[1].dataLoaded THEN f.ref ELSE @,
                  !.ops[i] = [f EXCEPT !.pc = "done", !.res = Ok(<<>>, f.newSha)]]
        ELSE /\ engine' = engine
             /\ coll' = [coll EXCEPT ![1].dataLoaded = FALSE]
             /\ inflight' = [inflight EXCEPT
                  !.ops[i] = [f EXCEPT !.pc = "done",
                                       !.res = Fail(WriteFailure(CollPath,
                                                                 HttpErr(f.status)))]]
  /\ last' = [NoOp EXCEPT !.proc = 1, !.op = "resume", !.id = i]
  /\ UNCHANGED <<remote, now, cacheTTL, opCount, writer, sharded, txn, cm, retry,
                 oracle, indexer>>

NextOverlap ==
  \/ \E call \in Calls : OvIssue(call)
  \/ \E i \in 1..MaxFlights : OvServe(i)
  \/ \E i \in 1..MaxFlights : OvResume(i)

SpecOverlap == InitOverlap /\ [][NextOverlap]_vars

\* ------------------- engines on one remote, one of which has read the file
\* process 1 has read users.json at time 0; process 2 has done nothing yet
InitGone ==
  /\ remote = Remote0
  /\ now = 0
  /\ cacheTTL \in TTLs
  /\ engine = [p \in Procs |->
                 IF p = 1
                 THEN readJson(EmptyEngine, Remote0, CollPath, cacheTTL, 0, <<>>).eng
                 ELSE EmptyEngine]
  /\ opCount = 0
  /\ last = NoOp
  /\ writer = [p \in Paths |-> 0]
  /\ sharded = FALSE
  /\ coll = [p \in Procs |-> NewCollection]
  /\ txn = [p \in Procs |-> NoTxn]
  /\ cm = [p \in Procs |-> Idle]
  /\ retry = NoRetry
  /\ oracle = <<>>
  /\ inflight = NoFlights
  /\ indexer = NoIndexes

SpecGone == InitGone /\ [][NextCache]_vars

\* the same call run from start to end
RunCall(call, c, st) ==
  IF call.op = "create" THEN create(c, st, Rec(call.id, call.name), Env0, NoTrouble)
  ELSE IF call.op = "update" THEN update(c, st, call.id, call.name, Env0, NoTrouble)
  ELSE delete(c, st, call.id, Env0, NoTrouble)

\* two calls run one after the other on the loaded instance
InIssueOrder(first, second) ==
  With(RunCall(first, Loaded0.c, Loaded0.st), LAMBDA a : RunCall(second, a.c, a.st))

\* ----------------------------------------------- one run of retryWithBackoff
InitRetry ==
  /\ remote = EmptyRemote
  /\ now = 0
  /\ cacheTTL = DEFAULT_TTL
  /\ engine = [p \in Procs |-> EmptyEngine]
  /\ opCount = 0
  /\ last = NoOp
  /\ writer = [p \in Paths |-> 0]
  /\ sharded = FALSE
  /\ coll = [p \in Procs |-> NewCollection]
  /\ txn = [p \in Procs |-> NoTxn]
  /\ cm = [p \in Procs |-> Idle]
  /\ retry \in {[NoRetry EXCEPT !.pc = "call", !.cfg = c] : c \in RetryConfigs}
  /\ oracle = <<>>
  /\ inflight = NoFlights
  /\ indexer = NoIndexes

\* "await fn()": fn is called and ends with `ans`
RetryCall(ans) ==
  /\ retry.pc = "call"
  /\ retry' = Attempt(retry, ans)
  /\ UNCHANGED <<remote, now, cacheTTL, engine, opCount, last, writer, sharded,
                 coll, txn, cm, oracle, inflight, indexer>>

\* the timer of the delay fires: the next iteration of the loop
RetryWake ==
  /\ retry.pc = "wait"
  /\ retry' = [retry EXCEPT !.pc = "call", !.attempt = @ + 1]
  /\ UNCHANGED <<remote, now, cacheTTL, engine, opCount, last, writer, sharded,
                 coll, txn, cm, oracle, inflight, indexer>>

NextRetry ==
  \/ \E ans \in Answers : RetryCall(ans)
  \/ RetryWake

SpecRetry == InitRetry /\ [][NextRetry]_vars

\* C1: a write that carries a version token and is answered by the remote
\* fails with ConcurrencyError naming the path and leaves the remote file as
\* it was when the token is not the file's current one, and otherwise
\* succeeds, returns a token different from the one sent and stores the
\* content under it.
C1_VersionTokenCAS ==
  (last.op = "writeJson" /\ last.sha # NoSha /\ last.answered) =>
    IF last.sha # last.pre.sha
    THEN /\ last.res = Fail(ConcurrencyError(last.path))
         /\ remote.files[last.path] = last.pre
    ELSE /\ last.res.ok
         /\ last.res.sha # last.sha
         /\ remote.files[last.path] = File(last.content, last.res.sha)

\* a write with a superseded token was rejected with ConcurrencyError
C1_Witness ==
  /\ last.op = "writeJson"
  /\ last.sha # NoSha
  /\ last.pre.present
  /\ last.sha # last.pre.sha
  /\ last.res.err = ConcurrencyError(last.path)

\* C2: in the single-file layout, an update() that is neither rejected by a
\* hook nor left unanswered succeeds from a loaded snapshot that is the remote's
\* current one and stores its record list under a new token; and when two
\* processes hold the same loaded snapshot and each updates the same record,
\* one after the other, the first succeeds, the second fails with
\* ConcurrencyError and the remote file holds the first one's record list.
C2_ExactlyOneUpdateWins ==
  /\ (/\ last.op = "update" /\ last.clean /\ last.before.dataLoaded
      /\ last.pre.present /\ last.before.lastSha = last.pre.sha
      /\ IndexOf(last.before.items, last.id) > 0) =>
        /\ last.res.ok
        /\ remote.files[CollPath] = File(last.content, last.res.sha)
        /\ last.res.sha # last.before.lastSha
  /\ (last.op = "update" /\ last.clean /\ last.race) =>
        /\ last.res = Fail(ConcurrencyError(CollPath))
        /\ ~last.wrote
        /\ remote.files[CollPath].data = last.rival

\* the second of two updates of one record from the same snapshot was rejected
C2_Witness ==
  /\ last.op = "update" /\ last.clean /\ last.race
  /\ last.res.err = ConcurrencyError(CollPath)
  /\ remote.files[CollPath].data = last.rival

\* C3: a commit does not land once another process has written, since the
\* transaction's collection loaded its snapshot, a path the transaction
\* changes.
C3_NoLostUpdate ==
  (last.op = "updateRef" /\ last.res.ok) => ~last.superseded

\* C4: a step of commit() other than an accepted advance of the head leaves
\* every file of the remote as it was, and an accepted advance of the head
\* leaves every change of the transaction in the remote: the content stored
\* at the path, or no file at a removed path.
C4_CommitAtomic ==
  last.op \in {"getRef", "getCommit", "createTree", "createCommit", "updateRef"} =>
    IF last.op = "updateRef" /\ last.res.ok
    THEN \A i \in 1..Len(last.changes) :
           LET ch == last.changes[i]
           IN IF ch.del THEN ~remote.files[ch.path].present
              ELSE /\ remote.files[ch.path].present
                   /\ remote.files[ch.path].data = ch.content
    ELSE remote.files = last.files

\* the advance of the head failed after the tree of two changes and the
\* commit had been created
C4_Witness ==
  /\ last.op = "updateRef" /\ ~last.res.ok
  /\ Len(last.changes) = 2
  /\ \A i \in 1..2 : last.tree[last.changes[i].path].present
  /\ remote.files = last.files

\* C5: a find() that follows a conflict of the same instance returns the
\* remote's current record list and leaves the instance holding the remote's
\* current token.
C5_ReloadAfterConflict ==
  (last.op = "find" /\ last.afterConflict /\ last.res.ok /\ last.clean) =>
     /\ last.res.data = remote.files[CollPath].data
     /\ coll[last.proc].lastSha = remote.files[CollPath].sha

\* C6: a successful readJson of a path that another engine wrote last
\* returns the content and token of that write.
C6_CacheCoherence ==
  (last.op = "readJson" /\ last.res.ok /\ writer[last.path] \notin {0, last.proc})
    => /\ last.res.data = remote.files[last.path].data
       /\ last.res.sha = remote.files[last.path].sha

\* C7: with the default TTL every readJson issues a remote request.
C7_DefaultTTLRevalidates ==
  (cacheTTL = DEFAULT_TTL /\ last.op = "readJson") => last.calls > 0

C9_ConflictUnloads ==
  (/\ last.op \in {"create", "update", "delete"}
   /\ last.res.err.kind = "concurrency") => ~coll[last.proc].dataLoaded

\* C10: a create, update or delete of a loaded collection that fails before
\* the remote confirmed its write, and not with a conflict, leaves the
\* in-memory record list as it was.
C10_MemoryAfterConfirmation ==
  (/\ last.op \in {"create", "update", "delete"}
   /\ last.before.dataLoaded
   /\ ~last.res.ok
   /\ last.res.err.kind # "concurrency") =>
       coll[last.proc].items = last.before.items

\* C13: a write the store accepts either carried the path's current version
\* token, or carried no token to a path that did not exist; in particular a
\* write without a token to an existing path does not replace its content.
C13_WriteNeedsCurrentToken ==
  (last.op = "writeJson" /\ last.res.ok) =>
    IF last.pre.present THEN last.sha = last.pre.sha ELSE last.sha = NoSha

\* C12: a create() on an unloaded single-file collection whose read of the
\* stored list fails on every attempt with a server error fails with that
\* error and issues no write.
C12_PreReadFailurePropagates ==
  (/\ last.op = "create" /\ ~sharded /\ ~last.before.dataLoaded
   /\ last.hook = "none" /\ last.call = "read" /\ ~last.clean
   /\ last.pre.present /\ ~last.cached) =>
      /\ last.res = Fail(HttpErr(500))
      /\ ~last.wrote
      /\ remote.files[CollPath] = last.pre

\* C14: after an accepted advance of the head, the committing engine holds,
\* for every changed path, the committed content under the path's new token
\* in both tiers, and holds no entry in either tier for a removed path, so
\* that neither exists() nor readJson() answers for it from the cache.
C14_CommitWriteThrough ==
  (last.op = "updateRef" /\ last.res.ok) =>
    \A i \in 1..Len(last.changes) :
      LET ch == last.changes[i]
          eng == engine[last.proc]
      IN IF ch.del
         THEN /\ ~CacheGet(eng.cache, ch.path, now).entry.present
              /\ ~eng.stale[ch.path].present
         ELSE /\ CacheGet(eng.cache, ch.path, now).entry
                   = Entry(ch.content, remote.files[ch.path].sha, FALSE)
              /\ eng.stale[ch.path] = Entry(ch.content, remote.files[ch.path].sha, FALSE)

\* C15: when the head has moved since step 1 of commit() and the remote
\* answers the advance of the head, commit() fails with
\* ConcurrencyError('batch-commit'), and the step leaves the repository (its
\* head and its files) and the caches of every engine as they were.
C15_MovedHeadConflict ==
  [][\A p \in Procs :
       (/\ cm[p].pc = "updateRef" /\ cm'[p].pc = "idle"
        /\ remote.head # cm[p].latest
        /\ last'.op = "updateRef" /\ last'.answered) =>
          /\ last'.res = Fail(ConcurrencyError("batch-commit"))
          /\ remote' = remote
          /\ engine' = engine]_vars

\* an answered advance of a moved head was refused as a batch conflict
C15_Witness ==
  /\ last.op = "updateRef" /\ last.moved /\ last.answered
  /\ last.res.err = ConcurrencyError("batch-commit")
  /\ last.calls = 2

\* C17: with retry enabled, a call of fn() that fails with status 409, with
\* another status below 500 other than 429 (401, 403, 404), or with an error that has
\* no status ends the run at once: that call was the last one, no wait
\* follows it, and the wrapper throws that very error.
C17_NonRetryableOnce ==
  (retry.cfg.enabled /\ retry.lastError.status \in {0, 401, 403, 404, 409}) =>
     /\ retry.pc = "done"
     /\ retry.res = Threw(retry.lastError)
     /\ retry.calls = retry.attempt + 1
     /\ Len(retry.waits) = retry.attempt

\* the first call failed with a 409: one call, no wait, the 409 thrown
C17_Witness ==
  /\ retry.cfg = RetryCfg(maxRetries, baseDelay, maxDelay)
  /\ retry.pc = "done"
  /\ retry.res = Threw(Answer(409, NoHeader))
  /\ retry.calls = 1
  /\ retry.waits = <<>>

\* C18: with retry enabled fn() is called at most maxRetries + 1 times; a
\* run that ends on a failure with status 429 or 5xx has called it exactly
\* maxRetries + 1 times and waited maxRetries times; a run returns as soon as
\* a call succeeds; and with retry disabled fn() is called exactly once and
\* the run never waits.
C18_RetryBound ==
  /\ retry.cfg.enabled =>
       /\ retry.calls <= retry.cfg.maxRetries + 1
       /\ (retry.pc = "done" /\ retry.res # Returned
           /\ retry.lastError.status \in {429, 500, 503}) =>
              /\ retry.calls = retry.cfg.maxRetries + 1
              /\ Len(retry.waits) = retry.cfg.maxRetries
       /\ (retry.pc = "wait") => retry.lastError.status \in {429, 500, 503}
  /\ (retry.res = Returned) =>
       /\ retry.pc = "done"
       /\ retry.calls = Len(retry.waits) + 1
  /\ ~retry.cfg.enabled =>
       /\ retry.waits = <<>>
       /\ retry.calls = IF retry.pc = "done" THEN 1 ELSE 0

\* the default config gave up after 4 calls that all failed with a 500
C18_Witness ==
  /\ retry.cfg = RetryCfg(maxRetries, baseDelay, maxDelay)
  /\ retry.pc = "done"
  /\ retry.res = Threw(Answer(500, NoHeader))
  /\ retry.calls = 4
  /\ Len(retry.waits) = 3

\* C19: a run that has used up its retries throws RateLimitError carrying
\* the retry-after value of the last failure (none when that answer had no
\* such header) when the last failure was a 429, and throws the last error
\* itself when it was a 5xx.
C19_ExhaustionOutcome ==
  (/\ retry.cfg.enabled /\ retry.pc = "done" /\ retry.res # Returned
   /\ retry.calls = retry.cfg.maxRetries + 1
   /\ retry.lastError.status \in {429, 500, 503}) =>
      IF retry.lastError.status = 429
      THEN /\ retry.res.kind = "ratelimit"
           /\ retry.res.retryAfter =
                IF retry.lastError.retryAfter = NoHeader THEN Undefined
                ELSE parseInt(retry.lastError.retryAfter)
           /\ (retry.lastError.retryAfter = <<6, 0>> => retry.res.retryAfter = 60)
      ELSE retry.res = Threw(retry.lastError)

\* four 429 answers, the last with retry-after 60: RateLimitError(60)
C19_Witness ==
  /\ retry.pc = "done"
  /\ retry.calls = 4
  /\ retry.lastError = Answer(429, <<6, 0>>)
  /\ retry.res = NewRateLimitError(60)

\* C20: the waits of one run never decrease from one to the next, and none
\* is longer than maxDelay.
C20_WaitsMonotoneCapped ==
  \A i \in 1..Len(retry.waits) :
     /\ retry.waits[i] <= retry.cfg.maxDelay
     /\ (i > 1 => retry.waits[i - 1] <= retry.waits[i])

\* C11: on an initially empty repository, every find() of the one instance
\* that has made the create/update/delete calls so far returns the list the
\* same calls give when replayed on a plain in-memory list.
C11_MatchesListOracle ==
  (last.op = "find" /\ last.res.ok) => last.res.data = oracle

\* C16: when a second create, update or delete is issued on an instance
\* before the first has completed, the final remote content and the final
\* in-memory state are those of running the two one after the other in the
\* order issued
C16_IssueOrderOutcome ==
  (/\ Len(inflight.ops) = MaxFlights
   /\ \A i \in 1..MaxFlights : inflight.ops[i].pc = "done") =>
     \E e \in {InIssueOrder(inflight.ops[1].call, inflight.ops[2].call)} :
        /\ remote.files[CollPath].data = e.st.rem.files[CollPath].data
        /\ coll[1].items = e.c.items

\* C30: a single-file write that create() issues and the remote accepts
\* holds every record of the version it replaces and the new record, so a
\* successful create() removes no record from the remote collection.
C30_CreateKeepsRecords ==
  (last.op = "create" /\ ~sharded /\ last.wrote) =>
     LET data == remote.files[CollPath].data
     IN /\ \A i \in 1..Len(last.pre.data) :
             \E j \in 1..Len(data) : data[j] = last.pre.data[i]
        /\ \E j \in 1..Len(data) : <<data[j]>> = last.content

\* C25: a create, update or delete made through the transaction's collection
\* while the callback runs leaves the remote as it was, starts no commit and
\* leaves the collection holding the pending version for what it wrote; a
\* failed one ends the transaction with no commit; a commit starts only from
\* an open transaction, carries every pending change, and keeps its changes
\* until it is over.
C25_BufferedUntilOneCommit ==
  [][/\ (last'.op \in {"tx.create", "tx.update", "tx.delete"}) =>
          /\ remote' = remote
          /\ cm' = cm /\ cm[1].pc = "idle"
          /\ (last'.res.ok /\ txn'[1].pending # txn[1].pending) =>
                IF sharded
                THEN last'.op = "tx.delete"
                     \/ txn'[1].c.shas[ItemPath(last'.id)] = PendingSha
                ELSE txn'[1].c.lastSha = PendingSha
          /\ ~last'.res.ok => ~txn'[1].open
     /\ (cm[1].pc = "idle" /\ cm'[1].pc # "idle") =>
          /\ txn[1].open
          /\ cm'[1].changes = getChanges(txn[1].pending)
          /\ cm'[1].changes # <<>>
     /\ (cm[1].pc # "idle" /\ cm'[1].pc # "idle") => cm'[1].changes = cm[1].changes
    ]_vars

\* the callback has made two changes and returned, and the one commit
\* carrying both has read the head
C25_Witness ==
  /\ cm[1].pc = "getCommit"
  /\ Len(cm[1].changes) = 2
  /\ last.op = "getRef"

\* C29: Transaction.commit() with nothing pending makes no remote call,
\* gives the empty result, and leaves the remote, the cache tiers and the
\* commit state as they were.
C29_EmptyCommitNoOp ==
  [][(/\ InTx(1) /\ getChanges(txn[1].pending) = <<>>
      /\ last'.proc = 1 /\ last'.op \in {"commit", "getRef"}) =>
        /\ last'.op = "commit"
        /\ last'.calls = 0
        /\ last'.res = Ok(<<>>, NoSha)
        /\ remote' = remote
        /\ engine' = engine
        /\ cm' = cm]_vars

\* a transaction whose callback changed nothing has been committed
C29_Witness ==
  /\ last.op = "commit" /\ last.proc = 1
  /\ ~txn[1].open
  /\ opCount > 1

\* C26: with a write of the path pending, readJson() of the transaction's
\* storage gives the pending content under the pending version and exists()
\* gives true, with no call made on behalf of the base storage; with no
\* change of the path pending, both give what the base storage gives.
C26_ReadYourOwnWrites ==
  (last.op \in {"ts.readJson", "ts.exists"}) =>
     /\ (last.pend.has /\ ~last.pend.del) =>
           /\ last.calls = 0
           /\ last.res = IF last.op = "ts.exists" THEN OkBool(TRUE)
                         ELSE Ok(last.pend.data, PendingSha)
     /\ ~last.pend.has => last.res = last.delegate

\* a pending write has been read back while the repository holds no file, or
\* another content, at the path
C26_Witness ==
  /\ last.op = "ts.readJson"
  /\ last.pend.has /\ ~last.pend.del
  /\ last.res.data = last.pend.data
  /\ last.files[last.path].data # last.pend.data

\* the order several sort keys ask for: the first key that tells two records
\* apart decides
RECURSIVE CompareKeys(_, _, _)
CompareKeys(a, b, sorts) ==
  IF sorts = <<>> THEN 0
  ELSE IF Compare(a, b, Head(sorts)) # 0 THEN Compare(a, b, Head(sorts))
  ELSE CompareKeys(a, b, Tail(sorts))

RECURSIVE InsertByKeys(_, _, _)
InsertByKeys(sorted, x, sorts) ==
  IF sorted = <<>> THEN <<x>>
  ELSE IF CompareKeys(x, Head(sorted), sorts) < 0 THEN <<x>> \o sorted
  ELSE <<Head(sorted)>> \o InsertByKeys(Tail(sorted), x, sorts)

\* the records in the order of the keys, equal ones in their input order
RECURSIVE SortedByKeys(_, _, _)
SortedByKeys(list, k, sorts) ==
  IF k = 0 THEN <<>> ELSE InsertByKeys(SortedByKeys(list, k - 1, sorts), list[k], sorts)

\* the record list a find() works on: the in-memory list of a loaded
\* collection, else the list the find() has loaded
Records == IF last.before.dataLoaded THEN last.before.items ELSE coll[1].items

\* C21: find(criteria) returns the record list filtered by all filters, then
\* sorted, then cut by offset and limit, whether the collection was loaded or
\* not (stated for criteria of at most one sort key).
C21_FilterSortPaginate ==
  (/\ last.op = "find" /\ last.res.ok /\ last.query.has
   /\ Len(last.query.sort) <= 1
   /\ (last.before.dataLoaded \/ coll[1].dataLoaded)) =>
      last.res.data =
        Slice(SortedByKeys(ApplyFilters(Records, last.query.filters),
                           Len(ApplyFilters(Records, last.query.filters)),
                           last.query.sort),
              last.query.page)

\* C22: a sort with several keys orders the records by the first key, ties
\* on it by the second, and so on, each ascending or descending as given,
\* records equal on all keys in their input order.
C22_MultiKeySort ==
  (/\ last.op = "find" /\ last.res.ok /\ last.query.has
   /\ last.query.filters = <<>> /\ ~last.query.page.on
   /\ (last.before.dataLoaded \/ coll[1].dataLoaded)) =>
      last.res.data = SortedByKeys(Records, Len(Records), last.query.sort)

\* C28: findById(id) of an unloaded sharded collection makes one storage
\* read, of the record's own blob (at most one request to the remote, whose
\* answer is the blob's content and version), lists no directory, and leaves
\* the collection unloaded with its list as it was.
C28_FindByIdOneRead ==
  (last.op = "findById" /\ sharded /\ ~last.before.dataLoaded) =>
     /\ last.reads = 1 /\ last.lists = 0
     /\ last.calls <= 1
     /\ ~coll[1].dataLoaded
     /\ coll[1].items = last.before.items
     /\ IF last.pre.present
        THEN /\ last.res = Ok(last.pre.data, NoSha)
             /\ coll[1].shas[ItemPath(last.id)] = last.pre.sha
        ELSE last.res = OkNull(NoSha)

\* record 2 has been found by id in a directory of two blobs by a collection
\* that was and stays unloaded
C28_Witness ==
  /\ last.op = "findById" /\ sharded /\ ~last.before.dataLoaded
  /\ last.id = 2 /\ last.res.data = <<Rec(2, "a")>>
  /\ remote.files[ItemPath(1)].present
  /\ last.reads = 1 /\ last.calls = 1
  /\ ~coll[1].dataLoaded

\* C27 as claimed: an update() that fails with not-found, and a delete() that
\* finds no record, write nothing and leave the in-memory list, the index
\* and the version tokens of the collection as they were.
C27_MissingIdLeavesState ==
  (\/ last.op = "update" /\ last.res.err = NotFoundError
   \/ last.op = "delete" /\ last.res.ok /\ ~last.wrote) =>
     /\ ~last.wrote
     /\ coll[last.proc] = last.before

\* the list the find() at the start of update() and delete() hands back
Found(p) == find(coll[p], Direct(p), Env, NoTrouble)

\* C27: update() of an id no record has fails with not-found, delete() of it
\* completes, and neither writes or deletes anything; both leave the list,
\* the index and the version tokens as the find() they start with leaves
\* them, which is unchanged when the collection is loaded.
C27_MissingIdLikeFind ==
  [][\A p \in Procs :
       (/\ last'.proc = p /\ last'.op \in {"update", "delete"}
        /\ last'.call \notin {"exists", "read", "list"}
        /\ Found(p).res.ok
        /\ \A i \in 1..Len(Found(p).res.data) : Found(p).res.data[i].id # last'.id) =>
          /\ IF last'.op = "update" THEN last'.res = Fail(NotFoundError)
             ELSE last'.res.ok
          /\ ~last'.wrote /\ last'.sent = NoSha
          /\ remote' = remote
          /\ coll'[p] = Found(p).c
          /\ coll[p].dataLoaded => coll'[p] = coll[p]]_vars

\* a loaded collection has been asked to update a record it does not hold
C27_Witness ==
  /\ last.op = "update" /\ last.res.err = NotFoundError
  /\ last.before.dataLoaded
  /\ coll[last.proc] = last.before
  /\ last.calls = 0

\* the stages configured, in the order the claim gives: the validator, then
\* every middleware that has a beforeSave, in configured order
RECURSIVE HooksFrom(_, _)
HooksFrom(middleware, i) ==
  IF i > Len(middleware) THEN <<>>
  ELSE (IF middleware[i] = "absent" THEN <<>> ELSE <<Stage("beforeSave", i)>>)
       \o HooksFrom(middleware, i + 1)
Configured(cfg) ==
  (IF cfg.validator = "none" THEN <<>> ELSE <<Stage("validator", 0)>>)
  \o HooksFrom(cfg.middleware, 1)
Throws(cfg, s) ==
  IF s.stage = "validator" THEN cfg.validator = "fail" ELSE cfg.middleware[s.at] = "fail"

\* C24: a create(), and an update() that has found its record, run the
\* validator first and then the beforeSave hooks in configured order, up to
\* and including the first that fails; when one fails the operation fails
\* with its error, no later stage runs and nothing is written or sent.
C24_ValidatorThenHooks ==
  [][(/\ last'.op \in {"create", "update"}
      /\ last'.op = "update" =>
           LET f == find(coll[1], Direct(1), Env, NoTrouble)
           IN  f.res.ok /\ IndexOf(f.res.data, last'.id) # 0) =>
       LET all == Configured(last'.cfg)
           ran == last'.ran
       IN  /\ Len(ran) <= Len(all)
           /\ \A k \in 1..Len(ran) : ran[k] = all[k]
           /\ \A k \in 1..(Len(ran) - 1) : ~Throws(last'.cfg, ran[k])
           /\ IF \E k \in 1..Len(all) : Throws(last'.cfg, all[k])
              THEN /\ Throws(last'.cfg, ran[Len(ran)])
                   /\ last'.res =
                        Fail(IF ran[Len(ran)].stage = "validator"
                             THEN ValidationError ELSE HookError)
                   /\ ~last'.wrote /\ last'.sent = NoSha
                   /\ remote' = remote
                   /\ last'.op = "create" => last'.calls = 0
              ELSE /\ ran = all
                   /\ last'.res.ok /\ last'.wrote]_vars

\* the validator and the first hook passed, the second hook failed the call
C24_Witness ==
  /\ last.op \in {"create", "update"}
  /\ last.cfg = Chain("pass", <<"pass", "fail">>)
  /\ last.ran = <<Stage("validator", 0), Stage("beforeSave", 1), Stage("beforeSave", 2)>>
  /\ last.res = Fail(HookError)
  /\ ~last.wrote

\* the objects handed to the Indexer and not taken back whose field is value
Scan(field, value) == {r \in Held : Objs[r][field] = value}

\* C23: in every state of an Indexer reached by build, add, remove, update
\* and clear, query of an indexed field and a value gives, without
\* repetition, exactly the objects indexed at present whose field has that
\* value (the empty list when there is none), and query of a field without
\* an index gives null.
C23_IndexScanEquivalence ==
  \A field \in Fields : \A value \in Values(field) :
    LET hit == IxQuery(indexer, field, value)
    IN IF field \in DOMAIN indexer
       THEN /\ ~hit.nul
            /\ {hit.list[i] : i \in 1..Len(hit.list)} = Scan(field, value)
            /\ Len(hit.list) = Cardinality(Scan(field, value))
       ELSE hit = NoHit

\* after a remove() the index still answers a query with one of two equal
\* objects, the other having been taken out
C23_Witness ==
  /\ last.op = "remove" /\ last.id = 1
  /\ "name" \in DOMAIN indexer
  /\ IxQuery(indexer, "name", "a").list = <<2>>
  /\ IxQuery(indexer, "name", "c").list = <<>>
  /\ ~IxQuery(indexer, "name", "c").nul
  /\ IxQuery(indexer, "id", 1) = NoHit

\* the fresh tier of process p answers for the path at the present time
FreshHit(p, path) ==
  /\ engine[p].cache[path].entry.present
  /\ engine[p].cache[path].expiry = NoExpiry \/ now <= engine[p].cache[path].expiry

\* C40: exists(path) answers true with no remote call when the fresh tier or
\* the stale tier has an entry of the path; otherwise it asks the remote and
\* answers true when the path is there, false when it is not found, and
\* fails with the error when the remote keeps failing otherwise.
C40_ExistsCacheThenRemote ==
  [][last'.op = "exists" =>
       LET p == last'.proc
           path == last'.path
       IN IF FreshHit(p, path) \/ engine[p].stale[path].present
          THEN last'.res = OkBool(TRUE) /\ last'.calls = 0
          ELSE /\ last'.calls >= 1
               /\ IF last'.answered
                  THEN last'.res = OkBool(remote.files[path].present)
                  ELSE last'.res = Fail(HttpErr(500))]_vars

\* exists() answered true with no remote call from the stale tier alone, the
\* fresh entry having expired
C40_Witness ==
  /\ last.op = "exists" /\ last.calls = 0 /\ last.res = OkBool(TRUE)
  /\ ~engine[last.proc].cache[last.path].entry.present
  /\ engine[last.proc].stale[last.path].present

\* C36: a readJson that misses the fresh tier and is answered by the remote.
\* With a stale entry whose version is the remote's, the answer is "not
\* modified", taken at once: the stale entry is returned and set in the fresh
\* tier with a new expiry, the stale tier unchanged.  With no stale entry, or
\* one of another version, the remote's {data, version} is returned and
\* replaces the entry of both tiers.  The answer is never asked for twice.
C36_ConditionalRead ==
  [][(/\ last'.op = "readJson" /\ last'.answered
      /\ ~FreshHit(last'.proc, last'.path)
      /\ remote.files[last'.path].present) =>
       LET p == last'.proc
           path == last'.path
           st == engine[p].stale[path]
           file == remote.files[path]
       IN /\ last'.calls = Len(last'.faults) + 1
          /\ last'.cond = st.present
          /\ IF st.present /\ st.sha = file.sha
             THEN /\ last'.res = Ok(st.data, st.sha)
                  /\ engine'[p].stale[path] = st
                  /\ engine'[p].cache[path] =
                       [entry |-> st, expiry |-> CacheExpiry(cacheTTL, now)]
             ELSE /\ last'.res = Ok(file.data, file.sha)
                  /\ engine'[p].stale[path].data = file.data
                  /\ engine'[p].stale[path].sha = file.sha
                  /\ engine'[p].cache[path].entry = engine'[p].stale[path]
                  /\ engine'[p].cache[path].expiry = CacheExpiry(cacheTTL, now)]_vars

\* a conditional read was answered "not modified" after the fresh entry
\* expired, and the entry is fresh again
C36_Witness ==
  /\ last.op = "readJson" /\ last.cond /\ last.calls = 1
  /\ now > 0
  /\ engine[last.proc].cache[last.path].entry = engine[last.proc].stale[last.path]
  /\ engine[last.proc].cache[last.path].expiry = now + cacheTTL
  /\ last.res.sha = remote.files[last.path].sha
  /\ writer[last.path] = 0

\* C38: whatever an engine's fresh tier holds for a path, its stale tier
\* holds too, with the same data and version; and after a deleteFile the
\* remote accepted neither tier of that engine holds the path.
C38_FreshWithinStale ==
  /\ \A p \in Procs, path \in Paths :
       engine[p].cache[path].entry.present =>
         /\ engine[p].stale[path].present
         /\ engine[p].stale[path].data = engine[p].cache[path].entry.data
         /\ engine[p].stale[path].sha = engine[p].cache[path].entry.sha
  /\ (last.op = "deleteFile" /\ last.res.ok) =>
       /\ ~engine[last.proc].cache[last.path].entry.present
       /\ ~engine[last.proc].stale[last.path].present

\* a deleteFile with the current version was accepted: the engine that made
\* it holds nothing of the path, while an engine still has its fresh entry
C38_Witness ==
  /\ last.op = "deleteFile" /\ last.res.ok /\ last.pre.present
  /\ last.sha = last.pre.sha /\ writer[last.path] = 0
  /\ ~engine[last.proc].stale[last.path].present
  /\ \E q \in Procs : engine[q].cache[last.path].entry.present

\* C33: with a TTL t > 0, an entry set in the fresh tier at time s expires at
\* s + t; a readJson is answered with no request only from an entry set at
\* most t ago; and a readJson that finds the entry expired sends a
\* conditional request and, once answered, returns the data and version the
\* remote holds at that time.
C33_BoundedStaleness ==
  [][cacheTTL > 0 =>
      /\ \A p \in Procs, path \in Paths :
           (/\ engine'[p].cache[path] # engine[p].cache[path]
            /\ engine'[p].cache[path].entry.present) =>
              engine'[p].cache[path].expiry = now + cacheTTL
      /\ last'.op = "readJson" =>
           LET p == last'.proc
               path == last'.path
               fresh == engine[p].cache[path]
           IN /\ last'.calls = 0 =>
                   /\ fresh.entry.present
                   /\ now - (fresh.expiry - cacheTTL) <= cacheTTL
                   /\ last'.res = Ok(fresh.entry.data, fresh.entry.sha)
              /\ (fresh.entry.present /\ now > fresh.expiry) =>
                   /\ last'.calls >= 1 /\ last'.cond
                   /\ (last'.answered /\ remote.files[path].present) =>
                        last'.res = Ok(remote.files[path].data,
                                       remote.files[path].sha)
                   /\ (last'.answered /\ ~remote.files[path].present) =>
                        ~last'.res.ok]_vars

\* a read after the expiry of the entry returned what another process wrote
\* in the meantime
C33_Witness ==
  /\ cacheTTL > 0
  /\ last.op = "readJson" /\ last.cond /\ last.res.ok
  /\ writer[last.path] \notin {0, last.proc}
  /\ last.res.data = remote.files[last.path].data
  /\ last.res.sha = remote.files[last.path].sha
  /\ last.res.sha > 1

\* C34: once the remote has answered a process's readJson of a path with "not
\* found", an exists() of that path by the same process, the path still being
\* gone, does not answer true.
C34_GoneStopsExisting ==
  (/\ last.op = "exists" /\ last.follows
   /\ ~remote.files[last.path].present) =>
     last.res # OkBool(TRUE)

\* C35: through a transaction's storage, a path the transaction has a
\* pending delete of is absent: exists() answers false and readJson() hands
\* back no record content.
C35_PendingDeleteIsAbsent ==
  (/\ last.op \in {"ts.exists", "ts.readJson"}
   /\ last.pend.has /\ last.pend.del) =>
     IF last.op = "ts.exists" THEN last.res = OkBool(FALSE)
     ELSE last.res.data = <<>>

\* the remote steps of commit() in the order the claim gives
StepOrder == <<"getRef", "getCommit", "createTree", "createCommit", "updateRef">>
StepAt(op) == CHOOSE k \in 1..Len(StepOrder) : StepOrder[k] = op

\* C37: every remote step of a commit is taken when exactly the steps before
\* it in the order getRef, getCommit, createTree, createCommit, updateRef
\* have been answered; the head read by step 1 is kept to the end and is the
\* parent given to the new commit, and the head is advanced only from it; a
\* failed step ends the commit with no later step, the cache and the
\* repository's files and head as they were; a commit of no change fails
\* with no remote call and changes nothing.
C37_CommitStepsInOrder ==
  [][/\ (last'.proc = 1 /\ \E k \in 1..Len(StepOrder) : StepOrder[k] = last'.op) =>
          /\ cm[1].steps = SubSeq(StepOrder, 1, StepAt(last'.op) - 1)
          /\ ~last'.res.ok =>
               /\ cm'[1] = Idle
               /\ engine' = engine
               /\ remote'.files = remote.files /\ remote'.head = remote.head
          /\ (last'.res.ok /\ last'.op # "updateRef") =>
               /\ cm'[1].steps = Append(cm[1].steps, last'.op)
               /\ engine' = engine
               /\ remote'.files = remote.files /\ remote'.head = remote.head
          /\ (last'.res.ok /\ last'.op = "getRef") => cm'[1].latest = remote.head
          /\ (last'.res.ok /\ last'.op = "createCommit") =>
               cm'[1].parent = cm[1].latest
          /\ (last'.res.ok /\ last'.op = "updateRef") =>
               /\ remote.head = cm[1].latest /\ cm[1].parent = cm[1].latest
               /\ remote'.head # remote.head
               /\ remote'.files = cm[1].tree
     /\ (cm[1].pc # "idle" /\ cm'[1].pc # "idle") => cm'[1].latest = cm[1].latest
     /\ (cm[1].pc = "idle" /\ cm'[1].pc # "idle") => last'.op = "getRef"
     /\ (last'.proc = 1 /\ last'.op = "commit") =>
          /\ ~last'.res.ok /\ last'.calls = 0
          /\ cm' = cm /\ engine' = engine /\ remote' = remote]_vars

\* the fifth step has advanced the head to the tree built in the third, for a
\* commit of two changes
C37_Witness ==
  /\ last.proc = 1 /\ last.op = "updateRef" /\ last.res.ok
  /\ Len(last.changes) = 2
  /\ remote.files = last.tree
  /\ cm[1] = Idle

\* C31: after a create() whose write the remote did not take, what the
\* engine's fresh and stale tier hold of the collection file under the
\* remote's present version is the remote's present content, and so lacks the
\* record that was not written.
C31_FailedCreateLeavesCache ==
  (/\ last.op = "create" /\ ~sharded
   /\ ~last.res.ok /\ ~last.wrote /\ last.hook = "none") =>
     LET eng == engine[last.proc]
         file == remote.files[CollPath]
     IN /\ (eng.cache[CollPath].entry.present
            /\ eng.cache[CollPath].entry.sha = file.sha) =>
              eng.cache[CollPath].entry.data = file.data
        /\ (eng.stale[CollPath].present /\ eng.stale[CollPath].sha = file.sha) =>
              eng.stale[CollPath].data = file.data

\* C32: while a collection is loaded, for every indexed field and every
\* value the index lookup gives exactly the records of the in-memory list
\* whose field has that value, each once.
C32_IndexMatchesList ==
  coll[1].dataLoaded =>
    \A field \in Fields : hasIndex(coll[1].index, field) =>
      \A value \in Values(field) :
        LET hits == Bucket(coll[1].index, field, value)
            held == {i \in 1..Len(coll[1].items) : coll[1].items[i][field] = value}
        IN /\ Len(hits) = Cardinality(held)
           /\ \A k \in 1..Len(hits) : \E i \in held : coll[1].items[i] = hits[k]


\* ------------------------------------- a collection from load to conflict
MaxLoadedOps == 3

\* either layout, the repository empty or holding record 1
InitLoaded == \E layout \in BOOLEAN : InitLayout(layout)

\* find(query) and findById(id) of the instance under observation
LFind(i) ==
  /\ \E o \in {findQuery(coll[1], Direct(1), Env, NoTrouble, QuerySeq[i])} :
        CollStepX(1, "find", 0, <<>>, NoTrouble, o,
                  [NoExtra EXCEPT !.query = QuerySeq[i]])
  /\ UNCHANGED oracle

LFindById(id) ==
  /\ \E o \in {findById(coll[1], Direct(1), id, Env, NoTrouble)} :
        CollStepX(1, "findById", id, <<>>, NoTrouble, o,
                  [NoExtra EXCEPT !.reads = o.reads, !.lists = o.lists])
  /\ UNCHANGED oracle

NextLoaded ==
  /\ opCount < MaxLoadedOps
  /\ \/ NextColl
     \/ \E i \in 1..Len(QuerySeq) : LFind(i)
     \/ \E id \in Ids : LFindById(id)

SpecLoaded == InitLoaded /\ [][NextLoaded]_vars

\* what a loaded collection holds for a find(query) or a findById(id): the
\* bucket of the index where the handler takes it, else the list
FromMemory(c, op, query, id) ==
  IF op = "find" THEN Ok(LoadedResult(c, query), NoSha)
  ELSE First(IF hasIndex(c.index, "id") THEN Bucket(c.index, "id", id) ELSE c.items, id)

\* find and findById of a loaded collection make no readJson and no
\* listDirectory call of the storage and leave the list and index alone
LoadedAsksNothing ==
  (last.op \in {"find", "findById"} /\ last.before.dataLoaded) =>
     /\ last.asked = 0
     /\ coll[last.proc] = last.before

\* find and findById of a loaded collection answer what memory holds
LoadedAnswersFromMemory ==
  (last.op \in {"find", "findById"} /\ last.before.dataLoaded) =>
     last.res = FromMemory(last.before, last.op, last.query, last.id)

\* a successful write keeps a loaded collection loaded, only a conflict
\* unloads one, and a create of an unloaded collection leaves it unloaded
WritesKeepLoaded ==
  /\ (last.op \in {"create", "update", "delete"} /\ last.before.dataLoaded
        /\ last.res.ok) => coll[last.proc].dataLoaded
  /\ (last.proc # 0 /\ last.before.dataLoaded /\ ~coll[last.proc].dataLoaded) =>
        last.res.err.kind = "concurrency"
  /\ (last.op = "create" /\ ~last.before.dataLoaded) => ~coll[last.proc].dataLoaded

\* C39: from the completion of a full load until the next write conflict,
\* find and findById are answered from the in-memory list and index and make
\* no read of the storage; a successful create, update or delete of a loaded
\* collection leaves it loaded, and a create of an unloaded collection leaves
\* it unloaded.
C39_LoadedUntilConflict ==
  /\ LoadedAsksNothing
  /\ LoadedAnswersFromMemory
  /\ WritesKeepLoaded
====
